---- MODULE Spec2Model ----
(***************************************************************************)
(* pydantic-evals (TypeScript): Dataset.evaluate, the per-unit execution   *)
(* (task run scope, span capture, evaluator runner), the report assembly   *)
(* and the report-level evaluators, modelled as a state machine.           *)
(*                                                                         *)
(* Values of type `T | null` are modelled as sequences of length <= 1:     *)
(* Null is <<>> and Some(x) is <<x>>.  Strings are TLA+ strings, template  *)
(* literals are built with \o.                                             *)
(***************************************************************************)
EXTENDS Integers, Sequences, FiniteSets, TLC

\* ---------------------------------------------------------------- bounds
MaxCases == 2
MaxRepeat == 2
MaxConc == 2
MaxCaseEvals == 1
MaxDsEvals == 1
MaxRepEvals == 2
MaxUnits == 4
MaxWork == 6
MaxRec == 3
MaxScopeUnits == 2
MaxUnitEvals == 3
MaxNewCases == 2
MaxOps == 2
MaxReportCases == 3
MaxReportFailures == 1
MaxGroupRuns == 2
MaxAggregates == 2
MaxOutputEvals == 2
MaxLiveUnits == 2
MaxIncrements == 4

\* ------------------------------------------------------- option encoding
Null == <<>>
Some(x) == <<x>>
IsNull(o) == o = <<>>
Get(o) == o[1]
\* a ?? b
OrElse(o, d) == IF o = <<>> THEN d ELSE o[1]

EmptyMap == [x \in {} |-> x]
\* obj[key] = v
Put(m, key, v) == [k \in (DOMAIN m) \cup {key} |-> IF k = key THEN v ELSE m[k]]

\* `${n}` of a template literal is ToString(n) of module TLC

\* --------------------------------------------------------------- errors
\* Values a task, an evaluator or a report evaluator can throw: an Error
\* object (with or without a stack) or a non-Error value.
ErrorObj(name, message, stack) ==
  [isError |-> TRUE, name |-> name, message |-> message, stack |-> stack]
NonError(str) == [isError |-> FALSE, str |-> str]

\* e instanceof Error ? e : new Error(String(e))
ToError(e) ==
  IF e.isError THEN e ELSE ErrorObj("Error", e.str, Some("Error: " \o e.str))

\* mutant: the message alone, without the error's type
ErrorMessageNoType(e) == ToError(e).message

\* `${error.name}: ${error.message}`
ErrorMessage(e) == ToError(e).name \o ": " \o ToError(e).message

\* error.stack ?? ''
ErrorStacktrace(e) == OrElse(ToError(e).stack, "")

\* what the task throws when it throws for the case with these inputs: an
\* Error for the odd cases, a non-Error value for the even ones
TaskThrown(idx) ==
  IF idx % 2 = 1
  THEN ErrorObj("Error", "task failed", Some("Error: task failed"))
  ELSE NonError("oops")
EvaluatorThrown == ErrorObj("Error", "evaluator boom", Some("Error: evaluator boom"))
ReportEvaluatorThrown == ErrorObj("TypeError", "report boom", Null)

\* ------------------------------------------------------------ evaluators
\* An evaluator object: its class name, its optional evaluationName field
\* and the scalar its evaluate() returns when it does not throw.
Scalar(t, v) == [t |-> t, v |-> v]

CaseEvaluatorPool ==
  << [cls |-> "IsOk", evaluationName |-> Some("check"), value |-> Scalar("boolean", "true")],
     [cls |-> "Tag", evaluationName |-> Null, value |-> Scalar("string", "x")],
     [cls |-> "IsOk", evaluationName |-> Null, value |-> Scalar("boolean", "false")] >>

DsEvaluatorPool ==
  << [cls |-> "Grade", evaluationName |-> Some("check"), value |-> Scalar("number", "1")],
     [cls |-> "Tag", evaluationName |-> Null, value |-> Scalar("string", "y")],
     [cls |-> "Grade", evaluationName |-> Null, value |-> Scalar("number", "2")] >>

\* BaseEvaluator.getSerializationName
getSerializationName(ev) == ev.cls

\* JavaScript values that are not evaluation scalars; an object is the list
\* of its <<key, value>> entries in insertion order
JsUndefined == Scalar("undefined", "undefined")
JsNull == Scalar("null", "null")
JsArray(items) == [t |-> "array", items |-> items]
JsObject(entries) == [t |-> "object", entries |-> entries]

\* new cls(...args) for the built-in classes Equals(value, evaluationName =
\* null), EqualsExpected(evaluationName = null) and MaxDuration(seconds); a
\* missing or undefined argument takes the parameter's default. Any other
\* class is a custom evaluator that overrides neither getFields nor
\* getDefaults.
NewEvaluator(cls, args) ==
  LET arg(i) == IF i <= Len(args) THEN args[i] ELSE JsUndefined
      orNull(v) == IF v = JsUndefined THEN JsNull ELSE v
  IN  CASE cls = "Equals" ->
             [cls |-> cls, fields |-> << <<"value", arg(1)>>,
                                         <<"evaluationName", orNull(arg(2))>> >>]
        [] cls = "EqualsExpected" ->
             [cls |-> cls, fields |-> << <<"evaluationName", orNull(arg(1))>> >>]
        [] cls = "MaxDuration" ->
             [cls |-> cls, fields |-> << <<"seconds", arg(1)>> >>]
        [] OTHER -> [cls |-> cls]

\* getFields(): the <<field name, value>> entries of the instance
getFields(ev) == IF "fields" \in DOMAIN ev THEN ev.fields ELSE <<>>

\* getDefaults()
getDefaults(ev) ==
  IF ev.cls \in {"Equals", "EqualsExpected"}
  THEN << <<"evaluationName", JsNull>> >>
  ELSE <<>>

\* BaseEvaluator.buildSerializationArguments: the fields that are not at
\* their default value (deepEqual against a default, which is a primitive
\* in every class above, is a === b)
buildSerializationArguments(ev) ==
  LET defaults == getDefaults(ev)
      atDefault(f) == \E i \in 1..Len(defaults) :
                        defaults[i][1] = f[1] /\ f[2] = defaults[i][2]
  IN  SelectSeq(getFields(ev), LAMBDA f : ~atDefault(f))

\* BaseEvaluator.asSpec
asSpec(ev) ==
  LET rawArguments == buildSerializationArguments(ev)
      name == getSerializationName(ev)
  IN  IF Len(rawArguments) = 0
      THEN [name |-> name, arguments |-> Null]
      ELSE IF Len(rawArguments) = 1 /\ rawArguments[1][1] = getFields(ev)[1][1]
           THEN [name |-> name, arguments |-> JsArray(<<rawArguments[1][2]>>)]
           ELSE [name |-> name, arguments |-> JsObject(rawArguments)]

\* mutant: the evaluationName field is ignored
getDefaultEvaluationNameOfClass(ev) == getSerializationName(ev)

\* Evaluator.getDefaultEvaluationName
getDefaultEvaluationName(ev) ==
  IF ev.evaluationName # Null THEN Get(ev.evaluationName) ELSE getSerializationName(ev)

\* Raw evaluator outputs: a bare scalar, a {value, reason?} pair, or a map
\* given as a sequence of <<key, entry>> pairs in insertion order.
RawScalar(s) == [shape |-> "scalar", value |-> s]
RawReason(s, reason) == [shape |-> "reason", value |-> s, reason |-> reason]
RawMap(entries) == [shape |-> "map", entries |-> entries]

\* isEvaluationScalar
isEvaluationScalar(v) == v.shape = "scalar"

\* isEvaluationReason: an object with a property named value that holds a
\* scalar, which a Record with such an entry is too
isEvaluationReason(v) ==
  \/ v.shape = "reason"
  \/ /\ v.shape = "map"
     /\ \E i \in 1..Len(v.entries) :
          v.entries[i][1] = "value" /\ isEvaluationScalar(v.entries[i][2])

\* Object.entries: the keys that are array indices in ascending numeric
\* order, then the other keys in insertion order (indices of one digit)
ObjectEntries(entries) ==
  LET isIndex(e) == \E n \in 0..9 : ToString(n) = e[1]
      index(e) == CHOOSE n \in 0..9 : ToString(n) = e[1]
  IN SortSeq(SelectSeq(entries, isIndex), LAMBDA d, e : index(d) < index(e))
       \o SelectSeq(entries, LAMBDA e : ~isIndex(e))

\* normalizeToMapping, then Object.entries of it: a sequence of
\* <<name, entry>> pairs
normalizeToMapping(raw, scalarName) ==
  IF isEvaluationScalar(raw) \/ isEvaluationReason(raw)
  THEN << <<scalarName, raw>> >>
  ELSE ObjectEntries(raw.entries)

\* the body of runEvaluator's try block: one EvaluationResult per entry;
\* result.value and result.reason of a Record taken for an EvaluationReason
\* are its entries of those names
EvaluatorDetails(ev, raw) ==
  LET results == normalizeToMapping(raw, getDefaultEvaluationName(ev))
      at(result, key) ==
        result.entries[CHOOSE i \in 1..Len(result.entries) : result.entries[i][1] = key][2]
      has(result, key) == \E i \in 1..Len(result.entries) : result.entries[i][1] = key
      valueOf(result) ==
        IF result.shape = "map" THEN at(result, "value").value ELSE result.value
      reasonOf(result) ==
        IF result.shape = "reason" THEN result.reason
        ELSE IF result.shape = "map" /\ has(result, "reason")
        THEN (IF isEvaluationScalar(at(result, "reason"))
                   /\ at(result, "reason").value.t = "string"
              THEN Some(at(result, "reason").value.v)
              ELSE Some(at(result, "reason")))
        ELSE Null
  IN [i \in 1..Len(results) |->
        [name |-> results[i][1],
         value |-> valueOf(results[i][2]),
         reason |-> IF isEvaluationReason(results[i][2])
                    THEN reasonOf(results[i][2]) ELSE Null,
         source |-> asSpec(ev)]]

\* runEvaluator when evaluate() returned raw
RunEvaluatorReturned(ev, raw) == [tag |-> "results", details |-> EvaluatorDetails(ev, raw)]

\* mutant: runEvaluator lets the evaluator's error escape
RunEvaluatorThrewRethrows(ev, e) == [tag |-> "rejected", error |-> e]

\* runEvaluator's catch block
RunEvaluatorThrew(ev, e) ==
  [tag |-> "failure",
   failure |-> [name |-> getDefaultEvaluationName(ev),
                errorMessage |-> ErrorMessage(e),
                errorStacktrace |-> ErrorStacktrace(e),
                source |-> asSpec(ev)]]

Pending == [tag |-> "pending"]

\* what a call of evaluator.evaluate(ctx) did
Returned(raw) == [tag |-> "returned", raw |-> raw]
Threw(e) == [tag |-> "threw", error |-> e]

\* evaluate() returned null or undefined: no scalar, no reason, no Record
RawNullish == [shape |-> "nullish"]

\* Object.entries(results) of the try block, called on null or undefined
EntriesOfNullish ==
  ErrorObj("TypeError", "Cannot convert undefined or null to object",
           Some("TypeError: Cannot convert undefined or null to object"))

\* runEvaluator(evaluator, ctx) when evaluator.evaluate(ctx) ended as outcome
runEvaluator(ev, outcome) ==
  IF outcome.tag = "threw" THEN RunEvaluatorThrew(ev, outcome.error)
  ELSE IF outcome.raw.shape = "nullish" THEN RunEvaluatorThrew(ev, EntriesOfNullish)
  ELSE RunEvaluatorReturned(ev, outcome.raw)

\* ------------------------------------------- groupEvaluatorOutputsByType
\* mutant: no scan, the suffix is always the first one tried
FreeSuffixNoScan(name, seenNames, suffix) == suffix

RECURSIVE FreeSuffix(_, _, _)
\* while (seenNames.has(`${name}_${suffix}`)) suffix++
FreeSuffix(name, seenNames, suffix) ==
  IF (name \o "_" \o ToString(suffix)) \in seenNames
  THEN FreeSuffix(name, seenNames, suffix + 1)
  ELSE suffix

RECURSIVE GroupFromKeepsNames(_, _, _, _)
\* mutant: every result is stored under its own name, taken or not
GroupFromKeepsNames(results, i, seenNames, acc) ==
  IF i > Len(results) THEN acc
  ELSE
    LET er == results[i]
        acc2 == CASE er.value.t = "boolean" ->
                       [acc EXCEPT !.assertions = Put(acc.assertions, er.name, er)]
                  [] er.value.t = "number" ->
                       [acc EXCEPT !.scores = Put(acc.scores, er.name, er)]
                  [] er.value.t = "string" ->
                       [acc EXCEPT !.labels = Put(acc.labels, er.name, er)]
                  [] OTHER -> acc
    IN GroupFromKeepsNames(results, i + 1, seenNames \cup {er.name}, acc2)

RECURSIVE GroupFrom(_, _, _, _)
\* the loop of groupEvaluatorOutputsByType from result i on
GroupFrom(results, i, seenNames, acc) ==
  IF i > Len(results) THEN acc
  ELSE
    LET er == results[i]
        name == IF er.name \in seenNames
                THEN er.name \o "_" \o ToString(FreeSuffix(er.name, seenNames, 2))
                ELSE er.name
        renamed == [er EXCEPT !.name = name]
        acc2 == CASE er.value.t = "boolean" ->
                       [acc EXCEPT !.assertions = Put(acc.assertions, name, renamed)]
                  [] er.value.t = "number" ->
                       [acc EXCEPT !.scores = Put(acc.scores, name, renamed)]
                  [] er.value.t = "string" ->
                       [acc EXCEPT !.labels = Put(acc.labels, name, renamed)]
                  [] OTHER -> acc
    IN GroupFrom(results, i + 1, seenNames \cup {name}, acc2)

groupEvaluatorOutputsByType(results) ==
  GroupFrom(results, 1, {}, [assertions |-> EmptyMap, scores |-> EmptyMap, labels |-> EmptyMap])

\* ----------------------------------------------------------------- state
VARIABLES
  cases,            \* Dataset.cases: sequence of [name, inputs, evaluators]
  evaluators,       \* Dataset.evaluators
  reportEvaluators, \* Dataset.reportEvaluators
  opts,             \* EvaluateOptions: [repeat, maxConcurrency]
  otel,             \* environment: is @opentelemetry/api importable, is a provider set
  pc,               \* position of the evaluate() call
  error,            \* the error evaluate() rejected with, or Null
  tasksToRun,       \* the unit list built by buildTasksToRun
  queue,            \* limiter: units submitted and not yet admitted, oldest first
  activeCount,      \* limiter: units admitted and not yet settled
  unit,             \* per unit: position of runTaskAndEvaluators; reordered is
                    \* history: an evaluator settled before an earlier-declared one
  results,          \* per unit: what its promise settled with, or Pending
  report,           \* the EvaluationReport, or Null before assembly
  repIdx,           \* index of the next report evaluator to run
  taskRunStorage,   \* AsyncLocalStorage: async context -> Some(store id) or Null
  taskRuns,         \* the TaskRun objects created by withTaskRun, by store id
  own,              \* history: per unit, the record its own task's calls describe
  recLeft,          \* recording calls the tasks and the caller may still make
  overtook,         \* history: some unit settled before an earlier-submitted one
  call              \* a direct call of one exported function: arguments and result

vars == << cases, evaluators, reportEvaluators, opts, otel, pc, error, tasksToRun,
           queue, activeCount, unit, results, report, repIdx, taskRunStorage,
           taskRuns, own, recLeft, overtook, call >>

\* what no step of evaluate() assigns
datasetVars == << cases, evaluators, reportEvaluators, opts, otel, call >>
scopeVars == << taskRunStorage, taskRuns, own >>

\* ------------------------------------------------------------- datasets
\* Case i of the modelled datasets: odd cases are named and have an expected
\* output, even ones have neither.
CaseAt(i, nCaseEvals) ==
  [name |-> IF i % 2 = 1 THEN Some("n" \o ToString(i)) ELSE Null,
   inputs |-> "in" \o ToString(i),
   metadata |-> Null,
   expectedOutput |-> IF i % 2 = 1 THEN Some("out:in" \o ToString(i)) ELSE Null,
   evaluators |-> SubSeq(CaseEvaluatorPool, 1, nCaseEvals)]

DatasetCases(n, nCaseEvals) == [i \in 1..n |-> CaseAt(i, nCaseEvals)]

OtelEnvs == {"missing", "noProvider", "provider"}

\* opts.maxConcurrency: undefined, or a number
MaxConcurrencyOpts == {Null} \cup {Some(m) : m \in 0..MaxConc}

\* ------------------------------------------------------ buildTasksToRun
\* mutant: the default name counts from zero
CaseNameOrAutoZeroBased(c, idx) == OrElse(c.name, "Case " \o ToString(idx - 1))

\* c.name ?? `Case ${i + 1}` (i is the 0-based index, idx = i + 1)
CaseNameOrAuto(c, idx) == OrElse(c.name, "Case " \o ToString(idx))

\* `${caseName} [${runIdx + 1}/${repeat}]`
RepeatName(caseName, k, repeat) ==
  caseName \o " [" \o ToString(k) \o "/" \o ToString(repeat) \o "]"

\* mutant: the repeated form only from repeat > 2 on
buildTasksToRunOffByOne(cs, repeat) ==
  IF repeat > 2
  THEN [p \in 1..(Len(cs) * repeat) |->
          LET idx == ((p - 1) \div repeat) + 1
              k == ((p - 1) % repeat) + 1
              caseName == CaseNameOrAuto(cs[idx], idx)
          IN [c |-> idx,
              reportName |-> RepeatName(caseName, k, repeat),
              sourceName |-> Some(caseName)]]
  ELSE [p \in 1..Len(cs) |->
          [c |-> p, reportName |-> CaseNameOrAuto(cs[p], p), sourceName |-> Null]]

\* the unit list: entry p is run k of case idx, case-major and repeat-minor
buildTasksToRun(cs, repeat) ==
  IF repeat > 1
  THEN [p \in 1..(Len(cs) * repeat) |->
          LET idx == ((p - 1) \div repeat) + 1
              k == ((p - 1) % repeat) + 1
              caseName == CaseNameOrAuto(cs[idx], idx)
          IN [c |-> idx,
              reportName |-> RepeatName(caseName, k, repeat),
              sourceName |-> Some(caseName)]]
  ELSE [p \in 1..Len(cs) |->
          [c |-> p, reportName |-> CaseNameOrAuto(cs[p], p), sourceName |-> Null]]

\* -------------------------------------------------------------- limiter
\* mutant: the option is ignored, pLimit(Infinity) always
LimitOfIgnoresOption(maxConcurrency) == [bounded |-> FALSE, concurrency |-> 0]

\* mutant: a given maxConcurrency is always passed on to the limiter
LimitOfPassesZero(maxConcurrency) ==
  IF maxConcurrency # Null
  THEN [bounded |-> TRUE, concurrency |-> Get(maxConcurrency)]
  ELSE [bounded |-> FALSE, concurrency |-> 0]

\* maxConcurrency ? pLimit(maxConcurrency) : pLimit(Infinity)
LimitOf(maxConcurrency) ==
  IF maxConcurrency # Null /\ Get(maxConcurrency) # 0
  THEN [bounded |-> TRUE, concurrency |-> Get(maxConcurrency)]
  ELSE [bounded |-> FALSE, concurrency |-> 0]

limit == LimitOf(opts.maxConcurrency)

\* p-limit: a submitted function starts only while activeCount < concurrency
HasFreeSlot(lim, active) == ~lim.bounded \/ active < lim.concurrency

\* mutant: last in, first out
NextQueuedLast(q) == q[Len(q)]

\* p-limit: the queue is first in, first out
NextQueued(q) == Head(q)

\* ------------------------------------------------------------- task run
NewTaskRun == [attributes |-> EmptyMap, metrics |-> EmptyMap]

\* mutant: one module-level current TaskRun, the one created last, instead
\* of a store per async context
getStoreShared(ctx) ==
  IF DOMAIN taskRuns = {} THEN Null
  ELSE Some(CHOOSE s \in DOMAIN taskRuns : \A t \in DOMAIN taskRuns : t <= s)

\* taskRunStorage.getStore() in async context ctx
getStore(ctx) == taskRunStorage[ctx]

\* the body of setEvalAttribute applied to one TaskRun
SetAttribute(taskRun, name, value) ==
  [taskRun EXCEPT !.attributes = Put(@, name, value)]

\* mutant: a total of zero is never written
IncrementMetricSkipsZero(taskRun, name, amount) ==
  LET currentValue == IF name \in DOMAIN taskRun.metrics THEN taskRun.metrics[name] ELSE 0
      newValue == currentValue + amount
  IN IF newValue = 0
     THEN taskRun
     ELSE [taskRun EXCEPT !.metrics = Put(@, name, newValue)]

\* the body of incrementEvalMetric applied to one TaskRun
IncrementMetric(taskRun, name, amount) ==
  LET currentValue == IF name \in DOMAIN taskRun.metrics THEN taskRun.metrics[name] ELSE 0
      newValue == currentValue + amount
  IN IF currentValue = 0 /\ newValue = 0
     THEN taskRun
     ELSE [taskRun EXCEPT !.metrics = Put(@, name, newValue)]

\* setEvalAttribute called in async context ctx: the new taskRuns
setEvalAttribute(ctx, name, value) ==
  LET taskRun == getStore(ctx)
  IN IF taskRun # Null
     THEN [taskRuns EXCEPT ![Get(taskRun)] = SetAttribute(@, name, value)]
     ELSE taskRuns

\* incrementEvalMetric called in async context ctx: the new taskRuns
incrementEvalMetric(ctx, name, amount) ==
  LET taskRun == getStore(ctx)
  IN IF taskRun # Null
     THEN [taskRuns EXCEPT ![Get(taskRun)] = IncrementMetric(@, name, amount)]
     ELSE taskRuns

\* ----------------------------------------------------------- span capture
\* what withSpanCapture returns as spanTree when fn() returned in `where`
SpanTreeOf(env, where) ==
  IF where = "catch"
  THEN [recordingError |->
          "To make use of the span tree in an evaluator, you must install "
            \o "@opentelemetry/api and @opentelemetry/sdk-trace-base."]
  ELSE IF env = "noProvider"
  THEN [recordingError |->
          "To make use of the span tree in an evaluator, you must configure an "
            \o "OpenTelemetry tracer provider before running an evaluation."]
  ELSE [spanTree |-> <<>>]

\* where withSpanCapture first calls fn(): inside its try block when the
\* dynamic import succeeded, inside its catch block when it threw
FirstCallSite(env) == IF env = "missing" THEN "catch" ELSE "try"

\* --------------------------------------------------- runTaskAndEvaluators
\* mutant: the dataset's evaluators come first
allEvaluatorsDatasetFirst(c) == evaluators \o c.evaluators

\* [...(c.evaluators ?? []), ...this.evaluators]
allEvaluators(c) == c.evaluators \o evaluators

RECURSIVE Flatten(_, _)
\* evaluatorOutputs after the loop over the runEvaluator results
Flatten(rs, i) ==
  IF i > Len(rs) THEN <<>>
  ELSE (IF rs[i].tag = "results" THEN rs[i].details ELSE <<>>) \o Flatten(rs, i + 1)

RECURSIVE Failures(_, _)
\* evaluatorFailures after the loop over the runEvaluator results
Failures(rs, i) ==
  IF i > Len(rs) THEN <<>>
  ELSE (IF rs[i].tag = "results" THEN <<>> ELSE <<rs[i].failure>>) \o Failures(rs, i + 1)

\* the ReportCase returned for unit u whose evaluators settled with rs; the
\* clock read by performance.now() ticks once for the task and once for
\* each evaluator
MakeReportCase(u, rs) ==
  LET t == tasksToRun[u]
      c == cases[t.c]
      grouped == groupEvaluatorOutputsByType(Flatten(rs, 1))
  IN [name |-> t.reportName,
      inputs |-> c.inputs,
      metadata |-> c.metadata,
      expectedOutput |-> c.expectedOutput,
      output |-> "out:" \o c.inputs,
      metrics |-> taskRuns[u].metrics,
      attributes |-> taskRuns[u].attributes,
      scores |-> grouped.scores,
      labels |-> grouped.labels,
      assertions |-> grouped.assertions,
      taskDuration |-> 1,
      totalDuration |-> 1 + Len(rs),
      sourceCaseName |-> t.sourceName,
      traceId |-> Null,
      spanId |-> Null,
      evaluatorFailures |-> Failures(rs, 1)]

\* a promise that rejected with e
Rejected(e) == [rejected |-> e]
IsRejected(item) == "rejected" \in DOMAIN item
IsSettled(item) == item # Pending

\* mutant: the catch block rethrows instead of building a ReportCaseFailure
OnUnitErrorRethrows(u, e) == Rejected(e)

\* the catch block of runTaskAndEvaluators: the ReportCaseFailure for unit u
OnUnitError(u, e) ==
  LET t == tasksToRun[u]
  IN [name |-> t.reportName,
      inputs |-> cases[t.c].inputs,
      metadata |-> cases[t.c].metadata,
      expectedOutput |-> cases[t.c].expectedOutput,
      errorMessage |-> ErrorMessage(e),
      errorStacktrace |-> ErrorStacktrace(e),
      sourceCaseName |-> t.sourceName,
      traceId |-> Null,
      spanId |-> Null]

\* 'output' in item
IsReportCase(item) == "output" \in DOMAIN item

\* ------------------------------------------------------ report assembly
RECURSIVE Reverse(_)
Reverse(q) == IF q = <<>> THEN <<>> ELSE Append(Reverse(Tail(q)), Head(q))

\* mutant: the loop keeps only the items that have an output
PartitionDropsFailures(items) ==
  [cases |-> SelectSeq(items, IsReportCase), failures |-> <<>>]

\* mutant: the loop prepends (unshift) instead of appending (push)
PartitionPrepends(items) ==
  [cases |-> Reverse(SelectSeq(items, IsReportCase)),
   failures |-> Reverse(SelectSeq(items, LAMBDA item : ~IsReportCase(item)))]

\* the partition loop of evaluate over the Promise.all results
Partition(items) ==
  [cases |-> SelectSeq(items, IsReportCase),
   failures |-> SelectSeq(items, LAMBDA item : ~IsReportCase(item))]

createEvaluationReport(name, cs, fs, experimentMetadata) ==
  [name |-> name, cases |-> cs, failures |-> fs, analyses |-> <<>>,
   reportEvaluatorFailures |-> <<>>, experimentMetadata |-> experimentMetadata,
   traceId |-> Null, spanId |-> Null]

\* ----------------------------------------------------------- aggregation
\* Numbers that are results of divisions are kept exact, as fractions in
\* lowest terms with a positive denominator.
RECURSIVE GCD(_, _)
GCD(a, b) == IF b = 0 THEN (IF a < 0 THEN -a ELSE a) ELSE GCD(b, a % b)

\* n / d for d > 0
Rat(n, d) == [num |-> n \div GCD(n, d), den |-> d \div GCD(n, d)]

\* a + b
RatAdd(a, b) == Rat(a.num * b.den + b.num * a.den, a.den * b.den)

\* the number an EvaluationResult<number> carries
NumberOf(er) == CHOOSE n \in -9..9 : ToString(n) = er.value.v

\* the loop `for (const c of cases) for (const [k, v] of Object.entries(..))`
\* over the numeric dictionaries dicts from i on: counts[k] and sums[k]
RECURSIVE Tally(_, _, _)
Tally(dicts, i, acc) ==
  IF i > Len(dicts) THEN acc
  ELSE LET d == dicts[i]
           old(m, k) == IF k \in DOMAIN m THEN m[k] ELSE 0
       IN Tally(dicts, i + 1,
                [counts |-> [k \in DOMAIN acc.counts \cup DOMAIN d |->
                               IF k \in DOMAIN d THEN old(acc.counts, k) + 1
                               ELSE acc.counts[k]],
                 sums |-> [k \in DOMAIN acc.sums \cup DOMAIN d |->
                             IF k \in DOMAIN d THEN old(acc.sums, k) + d[k]
                             ELSE acc.sums[k]]])

\* mutant: every sum is divided by the number of cases
AveragedOverAll(t, n) == [k \in DOMAIN t.sums |-> Rat(t.sums[k], n)]

\* avg[k] = sums[k] / counts[k] for each key of sums
Averaged(t, n) == [k \in DOMAIN t.sums |-> Rat(t.sums[k], t.counts[k])]

\* mutant: labelCounts[k] counts every case, with the label name or without
TallyLabelsAllCases(cs, i, acc) ==
  LET values(k) == {cs[j].labels[k].value.v : j \in {j \in 1..Len(cs) : k \in DOMAIN cs[j].labels}}
      names == UNION {DOMAIN cs[j].labels : j \in 1..Len(cs)}
  IN [counts |-> [k \in names |-> Len(cs)],
      sums |-> [k \in names |->
                  [v \in values(k) |->
                     Cardinality({j \in 1..Len(cs) : /\ k \in DOMAIN cs[j].labels
                                                      /\ cs[j].labels[k].value.v = v})]]]

\* the label loop from case i on: labelCounts[k] and labelSums[k][value]
RECURSIVE TallyLabels(_, _, _)
TallyLabels(cs, i, acc) ==
  IF i > Len(cs) THEN acc
  ELSE LET d == cs[i].labels
           old(m, k) == IF k \in DOMAIN m THEN m[k] ELSE 0
           oldSums(k) == IF k \in DOMAIN acc.sums THEN acc.sums[k] ELSE EmptyMap
       IN TallyLabels(cs, i + 1,
                [counts |-> [k \in DOMAIN acc.counts \cup DOMAIN d |->
                               IF k \in DOMAIN d THEN old(acc.counts, k) + 1
                               ELSE acc.counts[k]],
                 sums |-> [k \in DOMAIN acc.sums \cup DOMAIN d |->
                             IF k \in DOMAIN d
                             THEN Put(oldSums(k), d[k].value.v,
                                      old(oldSums(k), d[k].value.v) + 1)
                             ELSE acc.sums[k]]])

\* cases.reduce((sum, c) => sum + f(c), 0), for the list of the f(c), from i on
RECURSIVE Reduce(_, _)
Reduce(terms, i) == IF i > Len(terms) THEN 0 ELSE terms[i] + Reduce(terms, i + 1)

\* the aggregate both functions return for an empty list
\* mutant: the empty aggregate reports a pass rate of zero
EmptyAggregateZeroRate ==
  [name |-> "Averages", scores |-> EmptyMap, labels |-> EmptyMap, metrics |-> EmptyMap,
   assertions |-> Some(Rat(0, 1)), taskDuration |-> Rat(0, 1), totalDuration |-> Rat(0, 1)]

EmptyAggregate ==
  [name |-> "Averages", scores |-> EmptyMap, labels |-> EmptyMap, metrics |-> EmptyMap,
   assertions |-> Null, taskDuration |-> Rat(0, 1), totalDuration |-> Rat(0, 1)]

\* mutant: no assertion at all counts as a pass rate of zero
PassRateOrZero(nPassing, nAssertions) ==
  IF nAssertions > 0 THEN Some(Rat(nPassing, nAssertions)) ELSE Some(Rat(0, 1))

\* avgAssertions: null, or nPassing / nAssertions when nAssertions > 0
PassRate(nPassing, nAssertions) ==
  IF nAssertions > 0 THEN Some(Rat(nPassing, nAssertions)) ELSE Null

averageCases(cs) ==
  LET n == Len(cs)
      noTally == [counts |-> EmptyMap, sums |-> EmptyMap]
      scoreTally ==
        Tally([i \in 1..n |-> [k \in DOMAIN cs[i].scores |-> NumberOf(cs[i].scores[k])]],
              1, noTally)
      labelTally == TallyLabels(cs, 1, noTally)
      metricTally == Tally([i \in 1..n |-> cs[i].metrics], 1, noTally)
      nAssertions == Reduce([i \in 1..n |-> Cardinality(DOMAIN cs[i].assertions)], 1)
      nPassing ==
        Reduce([i \in 1..n |-> Cardinality({k \in DOMAIN cs[i].assertions :
                                               cs[i].assertions[k].value.v = "true"})], 1)
  IN IF n = 0 THEN EmptyAggregate
     ELSE [name |-> "Averages",
           scores |-> Averaged(scoreTally, n),
           labels |-> [k \in DOMAIN labelTally.sums |->
                         [label \in DOMAIN labelTally.sums[k] |->
                            Rat(labelTally.sums[k][label], labelTally.counts[k])]],
           metrics |-> Averaged(metricTally, n),
           assertions |-> PassRate(nPassing, nAssertions),
           taskDuration |-> Rat(Reduce([i \in 1..n |-> cs[i].taskDuration], 1), n),
           totalDuration |-> Rat(Reduce([i \in 1..n |-> cs[i].totalDuration], 1), n)]

\* vals.reduce((a, b) => a + b, 0) over fractions
RECURSIVE RatSum(_, _)
RatSum(vals, i) == IF i > Len(vals) THEN Rat(0, 1) ELSE RatAdd(vals[i], RatSum(vals, i + 1))

\* sum / length of a non-empty list of fractions
RatMean(vals) == Rat(RatSum(vals, 1).num, RatSum(vals, 1).den * Len(vals))

\* dicts.filter((d) => key in d).map((d) => d[key])
Having(dicts, key) ==
  LET with == SelectSeq(dicts, LAMBDA d : key \in DOMAIN d)
  IN [i \in 1..Len(with) |-> with[i][key]]

\* mutant: a dictionary without the key counts as zero
avgNumericDictsOverAll(dicts) ==
  [key \in UNION {DOMAIN dicts[i] : i \in 1..Len(dicts)} |->
     Rat(RatSum(Having(dicts, key), 1).num,
         RatSum(Having(dicts, key), 1).den * Len(dicts))]

\* avgNumericDicts
avgNumericDicts(dicts) ==
  LET allKeys == UNION {DOMAIN dicts[i] : i \in 1..Len(dicts)}
  IN [key \in allKeys |-> RatMean(Having(dicts, key))]

\* mutant: the combined frequencies are not divided by count
avgLabelDistSummed(reporting) ==
  [labelVal \in UNION {DOMAIN reporting[i] : i \in 1..Len(reporting)} |->
     RatSum(Having(reporting, labelVal), 1)]

\* avgLabels[key], from the distributions of the aggregates that have the
\* key: combined[labelVal] / count
avgLabelDist(reporting) ==
  [labelVal \in UNION {DOMAIN reporting[i] : i \in 1..Len(reporting)} |->
     LET combined == RatSum(Having(reporting, labelVal), 1)
     IN Rat(combined.num, combined.den * Len(reporting))]

\* mutant: the combined label frequencies are divided by the number of all
\* aggregates
averageFromAggregatesLabelsOverAll(aggregates) ==
  LET n == Len(aggregates)
      labelDicts == [i \in 1..n |-> aggregates[i].labels]
      allLabelKeys == UNION {DOMAIN labelDicts[i] : i \in 1..n}
      assertionValues ==
        LET with == SelectSeq(aggregates, LAMBDA a : a.assertions # Null)
        IN [i \in 1..Len(with) |-> Get(with[i].assertions)]
  IN IF n = 0 THEN EmptyAggregate
     ELSE [name |-> "Averages",
           scores |-> avgNumericDicts([i \in 1..n |-> aggregates[i].scores]),
           labels |-> [key \in allLabelKeys |->
                         LET reporting == Having(labelDicts, key)
                         IN [labelVal \in UNION {DOMAIN reporting[i] : i \in 1..Len(reporting)} |->
                               LET combined == RatSum(Having(reporting, labelVal), 1)
                               IN Rat(combined.num, combined.den * n)]],
           metrics |-> avgNumericDicts([i \in 1..n |-> aggregates[i].metrics]),
           assertions |-> IF Len(assertionValues) > 0
                          THEN Some(RatMean(assertionValues)) ELSE Null,
           taskDuration |-> RatMean([i \in 1..n |-> aggregates[i].taskDuration]),
           totalDuration |-> RatMean([i \in 1..n |-> aggregates[i].totalDuration])]

\* averageFromAggregates
averageFromAggregates(aggregates) ==
  LET n == Len(aggregates)
      labelDicts == [i \in 1..n |-> aggregates[i].labels]
      allLabelKeys == UNION {DOMAIN labelDicts[i] : i \in 1..n}
      assertionValues ==
        LET with == SelectSeq(aggregates, LAMBDA a : a.assertions # Null)
        IN [i \in 1..Len(with) |-> Get(with[i].assertions)]
  IN IF n = 0 THEN EmptyAggregate
     ELSE [name |-> "Averages",
           scores |-> avgNumericDicts([i \in 1..n |-> aggregates[i].scores]),
           labels |-> [key \in allLabelKeys |-> avgLabelDist(Having(labelDicts, key))],
           metrics |-> avgNumericDicts([i \in 1..n |-> aggregates[i].metrics]),
           assertions |-> IF Len(assertionValues) > 0
                          THEN Some(RatMean(assertionValues)) ELSE Null,
           taskDuration |-> RatMean([i \in 1..n |-> aggregates[i].taskDuration]),
           totalDuration |-> RatMean([i \in 1..n |-> aggregates[i].totalDuration])]

\* mutant: the groups are keyed by the entries' own names
GroupKeyOwnName(item) == item.name

\* c.sourceCaseName ?? c.name
GroupKey(item) == OrElse(item.sourceCaseName, item.name)

RECURSIVE KeysInOrder(_, _, _)
\* the keys of the Map `groups` in insertion order: first appearance in items
KeysInOrder(items, i, seen) ==
  IF i > Len(items) THEN <<>>
  ELSE IF GroupKey(items[i]) \in seen THEN KeysInOrder(items, i + 1, seen)
  ELSE << GroupKey(items[i]) >> \o KeysInOrder(items, i + 1, seen \cup {GroupKey(items[i])})

\* report.caseGroups()
computeCaseGroups(rep) ==
  LET hasSourceNames ==
        \/ \E i \in 1..Len(rep.cases) : rep.cases[i].sourceCaseName # Null
        \/ \E i \in 1..Len(rep.failures) : rep.failures[i].sourceCaseName # Null
      keys == KeysInOrder(rep.cases \o rep.failures, 1, {})
  IN IF ~hasSourceNames THEN Null
     ELSE Some([g \in 1..Len(keys) |->
            LET runs == SelectSeq(rep.cases, LAMBDA c : GroupKey(c) = keys[g])
                failures == SelectSeq(rep.failures, LAMBDA f : GroupKey(f) = keys[g])
                first == IF runs # <<>> THEN runs[1] ELSE failures[1]
            IN [name |-> keys[g], inputs |-> first.inputs, metadata |-> first.metadata,
                expectedOutput |-> first.expectedOutput, runs |-> runs,
                failures |-> failures, summary |-> averageCases(runs)]])

\* mutant: every group's summary is averaged
NonEmptyAll(groups) == [g \in 1..Len(groups) |-> groups[g].summary]

\* groups.filter((g) => g.runs.length > 0).map((g) => g.summary)
NonEmpty(groups) ==
  LET kept == SelectSeq(groups, LAMBDA g : Len(g.runs) > 0)
  IN [g \in 1..Len(kept) |-> kept[g].summary]

\* report.averages()
computeAverages(rep) ==
  LET groups == computeCaseGroups(rep)
  IN IF groups # Null
     THEN IF Len(NonEmpty(Get(groups))) > 0
          THEN Some(averageFromAggregates(NonEmpty(Get(groups)))) ELSE Null
     ELSE IF Len(rep.cases) > 0 THEN Some(averageCases(rep.cases)) ELSE Null

\* report evaluator objects and what they return
ReportEvaluatorAt(i) == [cls |-> "Rep" \o ToString(i), evaluationName |-> Null]
Analysis(ev, part) == [type |-> "scalar", title |-> ev.cls \o "/" \o ToString(part)]

\* mutant: the analyses are put in front (unshift) instead of appended
OnReportEvaluatorResultPrepends(rep, ev, many) ==
  IF many
  THEN [rep EXCEPT !.analyses = << Analysis(ev, 1), Analysis(ev, 2) >> \o @]
  ELSE [rep EXCEPT !.analyses = << Analysis(ev, 1) >> \o @]

\* the try branch of runReportEvaluators for one evaluator
OnReportEvaluatorResult(rep, ev, many) ==
  IF many
  THEN [rep EXCEPT !.analyses = @ \o << Analysis(ev, 1), Analysis(ev, 2) >>]
  ELSE [rep EXCEPT !.analyses = Append(@, Analysis(ev, 1))]

\* mutant: the loop has no catch branch
OnReportEvaluatorErrorRethrows(rep, ev, e) == Rejected(e)

\* the catch branch of runReportEvaluators for one evaluator
OnReportEvaluatorError(rep, ev, e) ==
  [rep EXCEPT !.reportEvaluatorFailures =
     Append(@, [name |-> getSerializationName(ev),
                errorMessage |-> ErrorMessage(e),
                errorStacktrace |-> ErrorStacktrace(e),
                source |-> asSpec(ev)])]

\* ------------------------------------------------------------------ Init
Units == 1..Len(tasksToRun)

\* no function is being called directly
NoCall == [op |-> "none"]

\* size of a configuration: its units, each with one task and its
\* evaluators, times the report evaluators that follow
Work(n, repeat, nEvals, nRep) ==
  n * (IF repeat < 1 THEN 1 ELSE repeat) * (1 + nEvals) * (1 + nRep)

\* a dataset with these cases, evaluators and report evaluators, about to be
\* evaluated with the options o in the environment env
InitOf(cs, evs, reps, o, env, rec) ==
  /\ cases = cs
  /\ evaluators = evs
  /\ reportEvaluators = reps
  /\ opts = o
  /\ otel = env
  /\ error = Null
  /\ tasksToRun = <<>>
  /\ queue = <<>>
  /\ activeCount = 0
  /\ unit = <<>>
  /\ results = <<>>
  /\ report = Null
  /\ repIdx = 1
  /\ taskRunStorage = [ctx \in {0} |-> Null]
  /\ taskRuns = EmptyMap
  /\ own = <<>>
  /\ recLeft = rec
  /\ overtook = FALSE

InitWith(n, repeat, nCaseEvals, nDsEvals, nRep, mc, env, rec) ==
  /\ InitOf(DatasetCases(n, nCaseEvals), SubSeq(DsEvaluatorPool, 1, nDsEvals),
            [i \in 1..nRep |-> ReportEvaluatorAt(i)],
            [repeat |-> repeat, maxConcurrency |-> mc], env, rec)
  /\ pc = "init"
  /\ call = NoCall

Init ==
  \E n \in 0..MaxCases, repeat \in (-1)..MaxRepeat,
     nCaseEvals \in 0..MaxCaseEvals, nDsEvals \in 0..MaxDsEvals,
     nRep \in 0..MaxRepEvals, mc \in MaxConcurrencyOpts, env \in OtelEnvs :
    /\ n * repeat <= MaxUnits
    /\ Work(n, repeat, nCaseEvals + nDsEvals, nRep) <= MaxWork
    /\ InitWith(n, repeat, nCaseEvals, nDsEvals, nRep, mc, env, 0)

\* --------------------------------------------------------------- actions
\* mutant: only negative repeat counts are refused
RepeatInvalidNegative(repeat) == repeat < 0

\* if (repeat < 1) throw ...
RepeatInvalid(repeat) == repeat < 1

\* evaluate(): the precondition, buildTasksToRun and the submission of
\* every unit to the limiter
Evaluate ==
  /\ pc = "init"
  /\ IF RepeatInvalid(opts.repeat)
     THEN /\ pc' = "rejected"
          /\ error' = Some(ErrorObj("Error",
                        "repeat must be >= 1, got " \o ToString(opts.repeat), Null))
          /\ UNCHANGED << tasksToRun, queue, unit, results, taskRunStorage, own >>
     ELSE LET ts == buildTasksToRun(cases, opts.repeat)
          IN /\ tasksToRun' = ts
             /\ queue' = [u \in 1..Len(ts) |-> u]
             /\ unit' = [u \in 1..Len(ts) |->
                           [phase |-> "queued", where |-> "none", calls |-> 0,
                            threw |-> 0, evals |-> <<>>, reordered |-> FALSE]]
             /\ results' = [u \in 1..Len(ts) |-> Pending]
             /\ taskRunStorage' = [ctx \in 0..Len(ts) |-> Null]
             /\ own' = [u \in 1..Len(ts) |-> NewTaskRun]
             /\ pc' = "running"
             /\ UNCHANGED error
  /\ UNCHANGED << datasetVars, activeCount, report, repIdx, taskRuns, recLeft, overtook >>

\* the promise of unit u settles with item: the limiter slot is freed
\* mutant: the slot of a unit that ended as a ReportCaseFailure is not
\* given back
SettleKeepsSlotOfFailure(u, item) ==
  /\ results' = [results EXCEPT ![u] = item]
  /\ activeCount' = IF "output" \in DOMAIN item THEN activeCount - 1 ELSE activeCount
  /\ overtook' = (overtook \/ \E v \in 1..(u - 1) : results[v] = Pending)

Settle(u, item) ==
  /\ results' = [results EXCEPT ![u] = item]
  /\ activeCount' = activeCount - 1
  /\ overtook' = (overtook \/ \E v \in 1..(u - 1) : results[v] = Pending)

\* the limiter admits unit u: runTaskAndEvaluators starts, withTaskRun
\* creates the TaskRun and enters its scope, withSpanCapture calls the task
StartUnit(u) ==
  /\ pc = "running"
  /\ queue # <<>>
  /\ u = NextQueued(queue)
  /\ HasFreeSlot(limit, activeCount)
  /\ queue' = SelectSeq(queue, LAMBDA v : v # u)
  /\ activeCount' = activeCount + 1
  /\ taskRuns' = Put(taskRuns, u, NewTaskRun)
  /\ taskRunStorage' = [taskRunStorage EXCEPT ![u] = Some(u)]
  /\ unit' = [unit EXCEPT ![u] =
                [phase |-> "task", where |-> FirstCallSite(otel), calls |-> 1,
                 threw |-> 0, evals |-> <<>>, reordered |-> FALSE]]
  /\ UNCHANGED << datasetVars, pc, error, tasksToRun, results, report, repIdx,
                  own, recLeft, overtook >>

\* the task of unit u returns: the evaluators are all invoked, or, when
\* there is none, the ReportCase is returned
TaskReturns(u) ==
  /\ pc = "running"
  /\ u \in Units
  /\ unit[u].phase = "task"
  /\ LET evs == allEvaluators(cases[tasksToRun[u].c])
     IN IF Len(evs) = 0
        THEN /\ unit' = [unit EXCEPT ![u].phase = "done"]
             /\ Settle(u, MakeReportCase(u, <<>>))
        ELSE /\ unit' = [unit EXCEPT ![u].phase = "evals",
                                     ![u].evals = [k \in 1..Len(evs) |-> Pending]]
             /\ UNCHANGED << results, activeCount, overtook >>
  /\ UNCHANGED << datasetVars, pc, error, tasksToRun, queue, report, repIdx,
                  scopeVars, recLeft >>

\* the task of unit u throws: thrown inside withSpanCapture's try block
\* it is caught there and the task is called again; thrown inside the catch
\* block it reaches the catch of runTaskAndEvaluators
TaskThrows(u) ==
  /\ pc = "running"
  /\ u \in Units
  /\ unit[u].phase = "task"
  /\ IF unit[u].where = "try"
     THEN /\ unit' = [unit EXCEPT ![u].where = "catch", ![u].calls = @ + 1,
                                  ![u].threw = @ + 1]
          /\ UNCHANGED << results, activeCount, overtook >>
     ELSE /\ unit' = [unit EXCEPT ![u].phase = "done", ![u].threw = @ + 1]
          /\ Settle(u, OnUnitError(u, TaskThrown(tasksToRun[u].c)))
  /\ UNCHANGED << datasetVars, pc, error, tasksToRun, queue, report, repIdx,
                  scopeVars, recLeft >>

\* runEvaluator of evaluator k of unit u settles with r; after the last one
\* the results are grouped and the ReportCase is returned.  A rejected
\* runEvaluator promise rejects the Promise.all over the evaluators, which
\* the catch block of runTaskAndEvaluators turns into a ReportCaseFailure
EvaluatorSettles(u, k, r) ==
  /\ pc = "running"
  /\ unit[u].phase = "evals"
  /\ unit[u].evals[k] = Pending
  /\ LET rs == [unit[u].evals EXCEPT ![k] = r]
         ro == unit[u].reordered \/ \E j \in 1..(k - 1) : unit[u].evals[j] = Pending
     IN IF r.tag = "rejected"
        THEN /\ unit' = [unit EXCEPT ![u].phase = "done", ![u].evals = rs,
                                     ![u].reordered = ro]
             /\ Settle(u, OnUnitError(u, r.error))
        ELSE IF \A j \in 1..Len(rs) : rs[j] # Pending
        THEN /\ unit' = [unit EXCEPT ![u].phase = "done", ![u].evals = rs,
                                     ![u].reordered = ro]
             /\ Settle(u, MakeReportCase(u, rs))
        ELSE /\ unit' = [unit EXCEPT ![u].evals = rs, ![u].reordered = ro]
             /\ UNCHANGED << results, activeCount, overtook >>
  /\ UNCHANGED << datasetVars, pc, error, tasksToRun, queue, report, repIdx,
                  scopeVars, recLeft >>

\* what evaluate() of evaluator ev returns: its map of named outputs when it
\* has one, its scalar otherwise
OutputOf(ev) == IF "raw" \in DOMAIN ev THEN ev.raw ELSE RawScalar(ev.value)

\* mutant: the recording error is raised for every evaluator of the unit
EvaluatedEagerly(ev, spanTreeOrError) ==
  IF "recordingError" \in DOMAIN spanTreeOrError
  THEN Threw(ErrorObj("SpanTreeRecordingError", spanTreeOrError.recordingError,
                      Some("SpanTreeRecordingError: " \o spanTreeOrError.recordingError)))
  ELSE Returned(OutputOf(ev))

\* evaluate(ctx) of an evaluator that does not throw by itself: one that
\* reads ctx.spanTree (HasMatchingSpan) gets the SpanTreeRecordingError
\* thrown by the getter when no tree was recorded
Evaluated(ev, spanTreeOrError) ==
  IF "readsSpanTree" \in DOMAIN ev /\ "recordingError" \in DOMAIN spanTreeOrError
  THEN Threw(ErrorObj("SpanTreeRecordingError", spanTreeOrError.recordingError,
                      Some("SpanTreeRecordingError: " \o spanTreeOrError.recordingError)))
  ELSE Returned(OutputOf(ev))

EvaluatorReturns(u, k) ==
  /\ u \in Units
  /\ k \in 1..Len(unit[u].evals)
  /\ LET ev == allEvaluators(cases[tasksToRun[u].c])[k]
     IN EvaluatorSettles(u, k, runEvaluator(ev, Evaluated(ev, SpanTreeOf(otel, unit[u].where))))

EvaluatorThrows(u, k) ==
  /\ u \in Units
  /\ k \in 1..Len(unit[u].evals)
  /\ LET ev == allEvaluators(cases[tasksToRun[u].c])[k]
     IN EvaluatorSettles(u, k, runEvaluator(ev, Threw(EvaluatorThrown)))

\* mutant: the first settled promise is enough (Promise.race)
FirstResolved(rs) == \E u \in DOMAIN rs : IsSettled(rs[u])

\* await Promise.all(promises) resolves: every promise has resolved
AllResolved(rs) == \A u \in DOMAIN rs : IsSettled(rs[u])

\* Promise.all settles: it rejects as soon as one unit promise rejected and
\* resolves when all resolved; then the partition and createEvaluationReport
Assemble ==
  /\ pc = "running"
  /\ \/ \E u \in Units : IsRejected(results[u])
     \/ AllResolved(results)
  /\ IF \E u \in Units : IsRejected(results[u])
     THEN /\ pc' = "rejected"
          /\ error' = Some((CHOOSE u \in Units : IsRejected(results[u])).rejected)
          /\ UNCHANGED report
     ELSE LET p == Partition(results)
          IN /\ report' = Some(createEvaluationReport("task", p.cases, p.failures, Null))
             /\ pc' = IF Len(reportEvaluators) > 0 THEN "reportEvals" ELSE "returned"
             /\ UNCHANGED error
  /\ UNCHANGED << datasetVars, tasksToRun, queue, activeCount, unit, results, repIdx,
                  scopeVars, recLeft, overtook >>

\* one iteration of the loop of runReportEvaluators; evaluate returns after
\* the last one, and rejects if an error escapes the loop
ReportEvaluatorSettles(newReport) ==
  /\ pc = "reportEvals"
  /\ IF IsRejected(newReport)
     THEN /\ pc' = "rejected"
          /\ error' = Some(newReport.rejected)
          /\ UNCHANGED << report, repIdx >>
     ELSE /\ report' = Some(newReport)
          /\ repIdx' = repIdx + 1
          /\ pc' = IF repIdx = Len(reportEvaluators) THEN "returned" ELSE "reportEvals"
          /\ UNCHANGED error
  /\ UNCHANGED << datasetVars, tasksToRun, queue, activeCount, unit, results,
                  scopeVars, recLeft, overtook >>

ReportEvaluatorReturns(many) ==
  /\ pc = "reportEvals"
  /\ ReportEvaluatorSettles(
       OnReportEvaluatorResult(Get(report), reportEvaluators[repIdx], many))

ReportEvaluatorThrows ==
  /\ pc = "reportEvals"
  /\ ReportEvaluatorSettles(
       OnReportEvaluatorError(Get(report), reportEvaluators[repIdx], ReportEvaluatorThrown))

Next ==
  \/ Evaluate
  \/ \E u \in 1..Len(queue) : StartUnit(queue[u])
  \/ \E u \in Units : TaskReturns(u)
  \/ \E u \in Units : TaskThrows(u)
  \/ \E u \in Units, k \in 1..(MaxCaseEvals + MaxDsEvals) : EvaluatorReturns(u, k)
  \/ \E u \in Units, k \in 1..(MaxCaseEvals + MaxDsEvals) : EvaluatorThrows(u, k)
  \/ Assemble
  \/ \E many \in BOOLEAN : ReportEvaluatorReturns(many)
  \/ ReportEvaluatorThrows

Spec == Init /\ [][Next]_vars

\* every task, evaluator and report-evaluator invocation terminates and the
\* event loop runs a continuation that is ready: a step that can be taken
\* is eventually taken. Evaluations with maxConcurrency >= 1 of datasets
\* whose cases have no evaluators of their own, @opentelemetry/api being
\* installed without a tracer provider
LiveInit ==
  \E n \in 1..MaxCases, repeat \in 1..MaxRepeat, nDsEvals \in 0..MaxDsEvals,
     nRep \in 0..1, mc \in {Some(m) : m \in 1..MaxConc} :
    /\ n * repeat <= MaxLiveUnits
    /\ Work(n, repeat, nDsEvals, nRep) <= MaxWork
    /\ InitWith(n, repeat, 0, nDsEvals, nRep, mc, "noProvider", 0)

LiveSpec == LiveInit /\ [][Next]_vars /\ WF_vars(Next)

\* ------------------------------------------- recording inside task runs
AttributeNames == {"model"}
AttributeValues == {"a", "b"}
MetricNames == {"tokens"}
MetricAmounts == {-1, 0, 1}

\* the running task of unit u calls setEvalAttribute(name, value); its code
\* runs in the async context that withTaskRun entered for u
TaskSetsAttribute(u, name, value) ==
  /\ pc = "running"
  /\ recLeft > 0
  /\ unit[u].phase = "task"
  /\ taskRuns' = setEvalAttribute(u, name, value)
  /\ own' = [own EXCEPT ![u] = SetAttribute(@, name, value)]
  /\ recLeft' = recLeft - 1
  /\ UNCHANGED << datasetVars, pc, error, tasksToRun, queue, activeCount, unit, results,
                  report, repIdx, taskRunStorage, overtook >>

\* the running task of unit u calls incrementEvalMetric(name, amount)
TaskIncrementsMetric(u, name, amount) ==
  /\ pc = "running"
  /\ recLeft > 0
  /\ unit[u].phase = "task"
  /\ taskRuns' = incrementEvalMetric(u, name, amount)
  /\ own' = [own EXCEPT ![u] = IncrementMetric(@, name, amount)]
  /\ recLeft' = recLeft - 1
  /\ UNCHANGED << datasetVars, pc, error, tasksToRun, queue, activeCount, unit, results,
                  report, repIdx, taskRunStorage, overtook >>

\* code outside every task-run scope (async context 0) calls setEvalAttribute
OutsideSetsAttribute(name, value) ==
  /\ pc = "running"
  /\ recLeft > 0
  /\ taskRuns' = setEvalAttribute(0, name, value)
  /\ recLeft' = recLeft - 1
  /\ UNCHANGED << datasetVars, pc, error, tasksToRun, queue, activeCount, unit, results,
                  report, repIdx, taskRunStorage, own, overtook >>

\* code outside every task-run scope calls incrementEvalMetric
OutsideIncrementsMetric(name, amount) ==
  /\ pc = "running"
  /\ recLeft > 0
  /\ taskRuns' = incrementEvalMetric(0, name, amount)
  /\ recLeft' = recLeft - 1
  /\ UNCHANGED << datasetVars, pc, error, tasksToRun, queue, activeCount, unit, results,
                  report, repIdx, taskRunStorage, own, overtook >>

Record ==
  \/ \E u \in Units, name \in AttributeNames, value \in AttributeValues :
       TaskSetsAttribute(u, name, value)
  \/ \E u \in Units, name \in MetricNames, amount \in MetricAmounts :
       TaskIncrementsMetric(u, name, amount)
  \/ \E name \in AttributeNames, value \in AttributeValues :
       OutsideSetsAttribute(name, value)
  \/ \E name \in MetricNames, amount \in MetricAmounts :
       OutsideIncrementsMetric(name, amount)

\* evaluations of a few units whose tasks record attributes and metrics
ScopeInit ==
  \E n \in 1..MaxCases, repeat \in 1..MaxRepeat, mc \in {Null, Some(1)},
     env \in {"missing", "noProvider"} :
    /\ n * repeat <= MaxScopeUnits
    /\ InitWith(n, repeat, 0, 0, 0, mc, env, MaxRec)

ScopeNext ==
  \/ Evaluate
  \/ \E u \in 1..Len(queue) : StartUnit(queue[u])
  \/ \E u \in Units : TaskReturns(u)
  \/ \E u \in Units : TaskThrows(u)
  \/ Assemble
  \/ Record

ScopeSpec == ScopeInit /\ [][ScopeNext]_vars

\* ------------------------------------------ one unit with many evaluators
\* evaluators whose result names collide: two named "check", one named
\* "check_2", and one returning a map with the keys "check" and "check_3";
\* and one that reads the span tree
NamedEvaluators ==
  { CaseEvaluatorPool[1], DsEvaluatorPool[1],
    [cls |-> "HasMatchingSpan", evaluationName |-> Null,
     value |-> Scalar("boolean", "false"), readsSpanTree |-> TRUE],
    [cls |-> "Tag", evaluationName |-> Some("check_2"), value |-> Scalar("string", "x")],
    [cls |-> "Multi", evaluationName |-> Null, value |-> Scalar("number", "2"),
     raw |-> RawMap(<< <<"check", RawScalar(Scalar("number", "2"))>>,
                       <<"check_3", RawScalar(Scalar("boolean", "false"))>> >>)] }

\* a dataset of one case evaluated once: up to MaxUnitEvals evaluators, the
\* first of them on the case and the others on the dataset, or all of them
\* on the dataset
UnitInit ==
  \E n \in 0..MaxUnitEvals :
    \E evs \in [1..n -> NamedEvaluators], nCase \in {0, 1}, env \in OtelEnvs :
      /\ nCase <= n
      /\ InitOf(<< [CaseAt(1, 0) EXCEPT !.evaluators = SubSeq(evs, 1, nCase)] >>,
                SubSeq(evs, nCase + 1, n), <<>>,
                [repeat |-> 1, maxConcurrency |-> Null], env, 0)
      /\ pc = "init"
      /\ call = NoCall

UnitNext ==
  \/ Evaluate
  \/ \E u \in 1..Len(queue) : StartUnit(queue[u])
  \/ \E u \in Units : TaskReturns(u)
  \/ \E u \in Units, k \in 1..MaxUnitEvals : EvaluatorReturns(u, k)
  \/ \E u \in Units, k \in 1..MaxUnitEvals : EvaluatorThrows(u, k)
  \/ Assemble

UnitSpec == UnitInit /\ [][UnitNext]_vars

\* a dataset of one case evaluated once, with up to MaxOutputEvals dataset
\* evaluators whose evaluate() returns a scalar, a reason or a Record of
\* scalars, among them two that share a name
OutputsInit ==
  \E n \in 0..MaxOutputEvals :
    \E evs \in [1..n ->
                 { CaseEvaluatorPool[1],
                   [cls |-> "Why", evaluationName |-> Some("check"),
                    value |-> Scalar("string", "x"),
                    raw |-> RawReason(Scalar("string", "x"), Some("why"))],
                   [cls |-> "Multi", evaluationName |-> Null, value |-> Scalar("number", "2"),
                    raw |-> RawMap(<< <<"check", RawScalar(Scalar("number", "2"))>>,
                                      <<"check_3", RawScalar(Scalar("boolean", "false"))>> >>)],
                   [cls |-> "Graded", evaluationName |-> Null, value |-> Scalar("number", "1"),
                    raw |-> RawMap(<< <<"value", RawScalar(Scalar("number", "1"))>>,
                                      <<"other", RawScalar(Scalar("boolean", "true"))>> >>)] }],
       env \in OtelEnvs :
      /\ InitOf(<< CaseAt(1, 0) >>, evs, <<>>, [repeat |-> 1, maxConcurrency |-> Null], env, 0)
      /\ pc = "init"
      /\ call = NoCall

OutputsSpec == OutputsInit /\ [][UnitNext]_vars

\* ------------------------------------- Dataset: constructor and mutators
\* a case with this name (or none) and no evaluators of its own
CaseNamed(name) ==
  [name |-> name, inputs |-> "in", metadata |-> Null, expectedOutput |-> Null,
   evaluators |-> <<>>]

CaseNames == {Null, Some("a"), Some("b")}

\* mutant: the constructor takes the cases as they are
FirstDuplicateUnchecked(cs, i, names) == Null

RECURSIVE FirstDuplicate(_, _, _)
\* the validation loop of the constructor from case i on: the name it
\* throws for, or Null
FirstDuplicate(cs, i, names) ==
  IF i > Len(cs) THEN Null
  ELSE IF cs[i].name # Null
       THEN IF Get(cs[i].name) \in names
            THEN cs[i].name
            ELSE FirstDuplicate(cs, i + 1, names \cup {Get(cs[i].name)})
       ELSE FirstDuplicate(cs, i + 1, names)

\* `Duplicate case name: '${c.name}'`
DuplicateCaseName(name) == "Duplicate case name: '" \o name \o "'"

datasetIdle == << reportEvaluators, opts, otel, error, tasksToRun, queue, activeCount,
                  unit, results, report, repIdx, taskRunStorage, taskRuns, own,
                  recLeft, overtook >>

\* new Dataset({cases: call.cases})
Construct ==
  /\ pc = "new"
  /\ LET dup == FirstDuplicate(call.cases, 1, {})
     IN IF dup # Null
        THEN /\ pc' = "threw"
             /\ call' = [call EXCEPT !.last = [op |-> "new", arg |-> Null,
                                               thrown |-> Some(DuplicateCaseName(Get(dup)))]]
             /\ UNCHANGED cases
        ELSE /\ pc' = "built"
             /\ cases' = call.cases
             /\ call' = [call EXCEPT !.last = [op |-> "new", arg |-> Null, thrown |-> Null]]
  /\ UNCHANGED << evaluators, datasetIdle >>

\* dataset.addCase(c)
addCase(c) ==
  /\ pc = "built"
  /\ call.left > 0
  /\ IF c.name # Null /\ \E i \in 1..Len(cases) : cases[i].name = c.name
     THEN /\ call' = [call EXCEPT !.left = @ - 1,
                                  !.last = [op |-> "addCase", arg |-> Some(c),
                                            thrown |-> Some(DuplicateCaseName(Get(c.name)))]]
          /\ UNCHANGED cases
     ELSE /\ cases' = Append(cases, c)
          /\ call' = [call EXCEPT !.left = @ - 1,
                                  !.last = [op |-> "addCase", arg |-> Some(c),
                                            thrown |-> Null]]
  /\ UNCHANGED << pc, evaluators, datasetIdle >>

\* dataset.addEvaluator(evaluator, specificCase); specificCase is Null for
\* undefined
addEvaluator(ev, specificCase) ==
  /\ pc = "built"
  /\ call.left > 0
  /\ IF specificCase = Null
     THEN /\ evaluators' = Append(evaluators, ev)
          /\ call' = [call EXCEPT !.left = @ - 1,
                                  !.last = [op |-> "addEvaluator", arg |-> specificCase,
                                            thrown |-> Null]]
          /\ UNCHANGED cases
     ELSE /\ cases' = [i \in 1..Len(cases) |->
                         IF cases[i].name = specificCase
                         THEN [cases[i] EXCEPT !.evaluators = Append(@, ev)]
                         ELSE cases[i]]
          /\ call' = [call EXCEPT
                        !.left = @ - 1,
                        !.last = [op |-> "addEvaluator", arg |-> specificCase,
                                  thrown |->
                                    IF \E i \in 1..Len(cases) : cases[i].name = specificCase
                                    THEN Null
                                    ELSE Some("Case '" \o Get(specificCase)
                                                \o "' not found in the dataset")]]
          /\ UNCHANGED evaluators
  /\ UNCHANGED << pc, datasetIdle >>

\* the constructor is about to be called with up to MaxNewCases cases
DatasetInit ==
  \E n \in 0..MaxNewCases :
    \E names \in [1..n -> CaseNames] :
      /\ InitOf(<<>>, <<>>, <<>>, [repeat |-> 1, maxConcurrency |-> Null], "missing", 0)
      /\ pc = "new"
      /\ call = [op |-> "dataset", cases |-> [i \in 1..n |-> CaseNamed(names[i])],
                 left |-> MaxOps, last |-> [op |-> "none", arg |-> Null, thrown |-> Null]]

DatasetNext ==
  \/ Construct
  \/ \E name \in CaseNames : addCase(CaseNamed(name))
  \/ \E specificCase \in CaseNames \cup {Some("z")} :
       addEvaluator(CaseEvaluatorPool[1], specificCase)

DatasetSpec == DatasetInit /\ [][DatasetNext]_vars

\* ------------------------------------------- datasets of every naming
\* evaluate() on a dataset the constructor accepts, without evaluators; a
\* case is given no name or a string, which may have the form of the
\* default names
NamesInit ==
  \E n \in 0..MaxCases, repeat \in 1..MaxRepeat,
     names \in [1..MaxCases -> {Null, Some("n1"), Some("Case 1"), Some("Case 2")}] :
    LET cs == [i \in 1..n |-> [CaseAt(i, 0) EXCEPT !.name = names[i]]]
    IN /\ n * repeat <= MaxUnits
       /\ \A i \in (n + 1)..MaxCases : names[i] = Null
       /\ FirstDuplicate(cs, 1, {}) = Null
       /\ InitOf(cs, <<>>, <<>>, [repeat |-> repeat, maxConcurrency |-> Null],
                 "missing", 0)
       /\ pc = "init"
       /\ call = NoCall

NamesNext ==
  \/ Evaluate
  \/ \E u \in 1..Len(queue) : StartUnit(queue[u])
  \/ \E u \in Units : TaskReturns(u)
  \/ \E u \in Units : TaskThrows(u)
  \/ Assemble

NamesSpec == NamesInit /\ [][NamesNext]_vars

\* -------------------------------------------------- direct function calls
\* the rest of the state while one function is called directly: no dataset
\* is being evaluated
Idle ==
  /\ InitOf(<<>>, <<>>, <<>>, [repeat |-> 1, maxConcurrency |-> Null], "missing", 0)
  /\ pc = "idle"

\* runEvaluator(evaluator, ctx) called on an evaluator whose evaluate()
\* returns a scalar, a reason, a Record or nothing, or throws an Error or
\* another value
RunEvaluatorCalls ==
  { [op |-> "runEvaluator", evaluator |-> ev, outcome |-> o, result |-> Pending] :
      ev \in {CaseEvaluatorPool[i] : i \in 1..Len(CaseEvaluatorPool)}
               \cup {DsEvaluatorPool[i] : i \in 1..Len(DsEvaluatorPool)},
      o \in {Returned(raw) : raw \in
               { RawScalar(Scalar("boolean", "true")), RawScalar(Scalar("number", "1")),
                 RawScalar(Scalar("string", "x")),
                 RawReason(Scalar("boolean", "false"), Some("why")),
                 RawReason(Scalar("number", "2"), Null),
                 RawMap(<<>>),
                 RawMap(<< <<"a", RawScalar(Scalar("number", "1"))>> >>),
                 RawMap(<< <<"b", RawReason(Scalar("string", "y"), Some("why"))>>,
                           <<"a", RawScalar(Scalar("boolean", "true"))>> >>),
                 RawMap(<< <<"b", RawScalar(Scalar("number", "1"))>>,
                           <<"2", RawScalar(Scalar("boolean", "true"))>>,
                           <<"1", RawReason(Scalar("string", "y"), Null)>> >>),
                 RawMap(<< <<"value", RawScalar(Scalar("number", "1"))>>,
                           <<"other", RawScalar(Scalar("boolean", "true"))>> >>),
                 RawNullish }}
            \cup {Threw(e) : e \in {EvaluatorThrown, ReportEvaluatorThrown,
                                     NonError("oops"), NonError("42")}} }

\* the promise of runEvaluator(evaluator, ctx) settles
RunEvaluatorCall ==
  /\ call.op = "runEvaluator"
  /\ call.result = Pending
  /\ call' = [call EXCEPT !.result = runEvaluator(call.evaluator, call.outcome)]
  /\ UNCHANGED << cases, evaluators, pc, datasetIdle >>

\* ReportCase objects: runs of the repeated cases A and B, and a case named
\* B that was run once
ReportCases ==
  LET er(name, t, v) ==
        [name |-> name, value |-> Scalar(t, v), reason |-> Null,
         source |-> asSpec(CaseEvaluatorPool[1])]
      rc(name, source, scores, labels, assertions, metrics, taskDuration, totalDuration) ==
        [name |-> name, inputs |-> "in", metadata |-> Null, expectedOutput |-> Null,
         output |-> "out:in", metrics |-> metrics, attributes |-> EmptyMap,
         scores |-> scores, labels |-> labels, assertions |-> assertions,
         taskDuration |-> taskDuration, totalDuration |-> totalDuration,
         sourceCaseName |-> source, traceId |-> Null, spanId |-> Null,
         evaluatorFailures |-> <<>>]
  IN { rc("A [1/2]", Some("A"),
          Put(EmptyMap, "s", er("s", "number", "1")),
          Put(EmptyMap, "l", er("l", "string", "x")),
          Put(EmptyMap, "a", er("a", "boolean", "true")),
          Put(EmptyMap, "m", 1), 1, 2),
       rc("A [2/2]", Some("A"),
          Put(Put(EmptyMap, "s", er("s", "number", "2")), "t", er("t", "number", "1")),
          Put(EmptyMap, "l", er("l", "string", "y")),
          Put(Put(EmptyMap, "a", er("a", "boolean", "false")),
              "b", er("b", "boolean", "true")),
          EmptyMap, 2, 3),
       rc("B [1/2]", Some("B"),
          Put(EmptyMap, "t", er("t", "number", "2")),
          EmptyMap, EmptyMap, Put(EmptyMap, "m", 3), 1, 1),
       rc("B", Null,
          Put(EmptyMap, "s", er("s", "number", "0")),
          Put(EmptyMap, "l", er("l", "string", "x")),
          Put(Put(EmptyMap, "a", er("a", "boolean", "true")),
              "b", er("b", "boolean", "true")),
          Put(EmptyMap, "m", 2), 0, 1) }

\* ReportCaseFailure objects: a failed run of A, of C, and a failed case D
\* that was run once
ReportCaseFailures ==
  { [name |-> f[1], inputs |-> "in", metadata |-> Null, expectedOutput |-> Null,
     errorMessage |-> "Error: boom", errorStacktrace |-> "", sourceCaseName |-> f[2],
     traceId |-> Null, spanId |-> Null] :
      f \in { <<"A [2/2]", Some("A")>>, <<"C [1/2]", Some("C")>>, <<"D", Null>> } }

\* lists of at most n members of S
UpTo(n, S) == UNION {[1..k -> S] : k \in 0..n}

\* averageCases(cases) called on a list of cases
AverageCasesCalls ==
  { [op |-> "averageCases", cases |-> cs, result |-> Pending] :
      cs \in UpTo(MaxReportCases, ReportCases) }

AverageCasesCall ==
  /\ call.op = "averageCases"
  /\ call.result = Pending
  /\ call' = [call EXCEPT !.result = averageCases(call.cases)]
  /\ UNCHANGED << cases, evaluators, pc, datasetIdle >>

\* averageFromAggregates(aggregates) called on the summaries of groups of
\* runs, the runs of one group being runs of one case
AverageFromAggregatesCalls ==
  LET runs == UNION {UpTo(MaxGroupRuns, {c \in ReportCases : GroupKey(c) = key}) :
                       key \in {"A", "B"}}
  IN { [op |-> "averageFromAggregates", groups |-> groups,
        aggregates |-> [g \in 1..Len(groups) |-> averageCases(groups[g])],
        result |-> Pending] :
         groups \in UpTo(MaxAggregates, runs) }

AverageFromAggregatesCall ==
  /\ call.op = "averageFromAggregates"
  /\ call.result = Pending
  /\ call' = [call EXCEPT !.result = averageFromAggregates(call.aggregates)]
  /\ UNCHANGED << cases, evaluators, pc, datasetIdle >>

\* report.caseGroups() and report.averages() called on a report
ReportCalls ==
  { [op |-> "report",
     report |-> createEvaluationReport("task", cs, fs, Null),
     result |-> Pending] :
      cs \in UpTo(MaxReportCases, ReportCases),
      fs \in UpTo(MaxReportFailures, ReportCaseFailures) }

ReportCall ==
  /\ call.op = "report"
  /\ call.result = Pending
  /\ call' = [call EXCEPT !.result = [caseGroups |-> computeCaseGroups(call.report),
                                       averages |-> computeAverages(call.report)]]
  /\ UNCHANGED << cases, evaluators, pc, datasetIdle >>

\* ------------------------------------------------- evaluator specs
\* strs.join(sep)
RECURSIVE Join(_, _)
Join(strs, sep) ==
  IF Len(strs) = 0 THEN ""
  ELSE IF Len(strs) = 1 THEN strs[1]
  ELSE strs[1] \o sep \o Join(Tail(strs), sep)

\* serializeEvaluatorSpec(spec) in its short form
serializeEvaluatorSpec(spec) ==
  IF spec.arguments = Null
  THEN Scalar("string", spec.name)
  ELSE IF spec.arguments.t = "array"
       THEN JsObject(<< <<spec.name, IF Len(spec.arguments.items) = 0 THEN JsUndefined
                                     ELSE spec.arguments.items[1]>> >>)
       ELSE JsObject(<< <<spec.name, spec.arguments>> >>)

\* deserializeEvaluatorSpec(value), value being a string, an object or
\* another primitive
deserializeEvaluatorSpec(value) ==
  IF value.t = "string"
  THEN Returned([name |-> value.v, arguments |-> Null])
  ELSE IF value.t = "object"
  THEN IF Len(value.entries) # 1
       THEN LET keys == [i \in 1..Len(value.entries) |-> "\"" \o value.entries[i][1] \o "\""]
                message == "Expected a single key containing the Evaluator class name, "
                             \o "found keys [" \o Join(keys, ",") \o "]"
            IN  Threw(ErrorObj("Error", message, Some("Error: " \o message)))
       ELSE LET name == value.entries[1][1]
                rawValue == value.entries[1][2]
            IN  IF rawValue \in {JsUndefined, JsNull}
                THEN Returned([name |-> name, arguments |-> Null])
                ELSE IF rawValue.t = "object"
                THEN Returned([name |-> name, arguments |-> rawValue])
                ELSE Returned([name |-> name, arguments |-> JsArray(<<rawValue>>)])
  ELSE LET message == "Invalid evaluator spec: " \o value.v
       IN  Threw(ErrorObj("Error", message, Some("Error: " \o message)))

\* the built-in evaluator types
DEFAULT_EVALUATORS ==
  << "Equals", "EqualsExpected", "Contains", "IsInstance", "MaxDuration", "HasMatchingSpan" >>

\* buildRegistry(customTypes, defaults) for custom types of distinct names:
\* the class names in the order of the Map
buildRegistry(customTypes, defaults) ==
  customTypes \o SelectSeq(defaults, LAMBDA d : \A i \in 1..Len(customTypes) : customTypes[i] # d)

\* loadEvaluatorFromRegistry(registry, spec); none of the constructors of
\* NewEvaluator throws
loadEvaluatorFromRegistry(registry, spec) ==
  IF \A i \in 1..Len(registry) : registry[i] # spec.name
  THEN LET message == "Evaluator '" \o spec.name \o "' is not in the registry. "
                        \o "Valid choices: " \o Join(registry, ", ") \o ". "
                        \o "If using a custom evaluator, include its class in customEvaluatorTypes."
       IN  Threw(ErrorObj("Error", message, Some("Error: " \o message)))
  ELSE IF spec.arguments = Null
       THEN Returned(NewEvaluator(spec.name, <<>>))
       ELSE IF spec.arguments.t = "array"
            THEN Returned(NewEvaluator(spec.name, spec.arguments.items))
            ELSE Returned(NewEvaluator(spec.name, <<spec.arguments>>))

\* An evaluator of a dataset is written by serializeDataset and read back by
\* loadDatasetFromObject with the given custom evaluator types: evaluators
\* of the built-in classes Equals, EqualsExpected and MaxDuration and of the
\* custom class IsOk, without arguments, with one argument and with two
LoadEvaluatorCalls ==
  LET values == { Scalar("number", "1"), Scalar("string", "x"), JsNull,
                  JsObject(<< <<"a", Scalar("number", "1")>> >>) }
      names == { Scalar("string", "n"), JsNull }
      evs == {NewEvaluator("Equals", <<v>>) : v \in values}
               \cup {NewEvaluator("Equals", <<v, n>>) : v \in values, n \in names}
               \cup {NewEvaluator("EqualsExpected", <<>>)}
               \cup {NewEvaluator("EqualsExpected", <<n>>) : n \in names}
               \cup {NewEvaluator("MaxDuration", << Scalar("number", "1") >>)}
               \cup {NewEvaluator("IsOk", <<>>)}
  IN  { [op |-> "loadEvaluator", evaluator |-> ev, customEvaluatorTypes |-> custom,
         result |-> Pending] :
          ev \in evs, custom \in {<<>>, <<"IsOk">>} }

\* serializeEvaluatorSpec(ev.asSpec()) in serializeDataset, then
\* deserializeEvaluatorSpec and loadEvaluatorFromRegistry in
\* loadDatasetFromObject
LoadEvaluatorCall ==
  /\ call.op = "loadEvaluator"
  /\ call.result = Pending
  /\ LET rawSpec == serializeEvaluatorSpec(asSpec(call.evaluator))
         evaluatorRegistry == buildRegistry(call.customEvaluatorTypes, DEFAULT_EVALUATORS)
         spec == deserializeEvaluatorSpec(rawSpec)
     IN  call' = [call EXCEPT !.result =
                    IF spec.tag = "threw" THEN spec
                    ELSE loadEvaluatorFromRegistry(evaluatorRegistry, spec.raw)]
  /\ UNCHANGED << cases, evaluators, pc, datasetIdle >>

\* incrementEvalMetric(name, amount) called, up to MaxIncrements times, by
\* the code running in the scope of one TaskRun
IncrementEvalMetricCall ==
  /\ call.op = "incrementEvalMetric"
  /\ Len(call.increments) < MaxIncrements
  /\ \E name \in {"tokens", "cost"}, amount \in {-1, 0, 1, 2} :
       call' = [call EXCEPT !.increments = Append(@, [name |-> name, amount |-> amount]),
                            !.taskRun = IncrementMetric(@, name, amount)]
  /\ UNCHANGED << cases, evaluators, pc, datasetIdle >>

CallInit ==
  /\ Idle
  /\ \/ call \in RunEvaluatorCalls
     \/ call \in AverageCasesCalls
     \/ call \in AverageFromAggregatesCalls
     \/ call \in ReportCalls
     \/ call \in LoadEvaluatorCalls
     \/ call = [op |-> "incrementEvalMetric", increments |-> <<>>, taskRun |-> NewTaskRun]

CallNext ==
  \/ RunEvaluatorCall
  \/ AverageCasesCall
  \/ AverageFromAggregatesCall
  \/ ReportCall
  \/ LoadEvaluatorCall
  \/ IncrementEvalMetricCall

CallSpec == CallInit /\ [][CallNext]_vars

\* ================================================================ claims
Rep == Get(report)
IsFailure(item) == "errorMessage" \in DOMAIN item /\ ~IsReportCase(item)
MidExecution == {u \in Units : unit[u].phase \in {"task", "evals"}}
TaskSucceeded(u) == unit[u].phase \in {"evals", "done"} /\ unit[u].threw < unit[u].calls
\* how many entries of list carry this name
Named(list, name) == Cardinality({i \in 1..Len(list) : list[i].name = name})
\* the dataset case an entry was run for, found by its inputs
CaseOf(entry) == CHOOSE c \in 1..Len(cases) : cases[c].inputs = entry.inputs
\* the name a case goes by: its own, or "Case N" by 1-based position
OriginName(c) == IF cases[c].name # Null THEN cases[c].name[1] ELSE "Case " \o ToString(c)
\* the 1-based run an entry is, read off its name
RunOf(entry) ==
  IF opts.repeat > 1
  THEN CHOOSE k \in 1..opts.repeat :
         entry.name = OriginName(CaseOf(entry)) \o " [" \o ToString(k) \o "/"
                        \o ToString(opts.repeat) \o "]"
  ELSE 1
\* entry a was submitted before entry b: case-major, repeat-minor
Before(a, b) ==
  \/ CaseOf(a) < CaseOf(b)
  \/ CaseOf(a) = CaseOf(b) /\ RunOf(a) < RunOf(b)
TypedMap(rc, t) ==
  CASE t = "boolean" -> rc.assertions [] t = "number" -> rc.scores [] OTHER -> rc.labels

\* C1: once the report is assembled, every scheduled unit has exactly one
\* entry, in cases or in failures and never in both, so the two lists
\* together hold cases x repeat entries.
C1_OneEntryPerUnit ==
  report # Null =>
    /\ Len(Rep.cases) + Len(Rep.failures) = Len(cases) * opts.repeat
    /\ \A u \in Units :
         Named(Rep.cases, tasksToRun[u].reportName)
           + Named(Rep.failures, tasksToRun[u].reportName) = 1
    /\ \A i \in 1..Len(Rep.cases) : IsReportCase(Rep.cases[i]) /\ ~IsFailure(Rep.cases[i])
    /\ \A i \in 1..Len(Rep.failures) : IsFailure(Rep.failures[i])

C1_Witness ==
  /\ pc = "returned"
  /\ Len(tasksToRun) = 4
  /\ Len(Rep.cases) >= 1
  /\ Len(Rep.failures) >= 1
  /\ overtook

C3_EvaluatorFailureIsolated ==
  \A u \in Units :
    (unit[u].phase = "done" /\ TaskSucceeded(u)) =>
      LET rc == results[u]
          rs == unit[u].evals
          evs == allEvaluators(cases[tasksToRun[u].c])
          threw == {k \in 1..Len(rs) : rs[k].tag \notin {"results", "pending"}}
          returned == {k \in 1..Len(rs) : rs[k].tag = "results"}
      IN /\ IsReportCase(rc)
         /\ threw \cup returned = 1..Len(evs)
         /\ Len(rc.evaluatorFailures) = Cardinality(threw)
         /\ \A k \in threw :
              Cardinality({i \in 1..Len(rc.evaluatorFailures) :
                             rc.evaluatorFailures[i].source = asSpec(evs[k])})
                = Cardinality({j \in threw : asSpec(evs[j]) = asSpec(evs[k])})
         /\ \A k \in returned :
              \E name \in DOMAIN TypedMap(rc, evs[k].value.t) :
                /\ TypedMap(rc, evs[k].value.t)[name].value = evs[k].value
                /\ TypedMap(rc, evs[k].value.t)[name].source = asSpec(evs[k])
         /\ Cardinality(DOMAIN rc.scores) + Cardinality(DOMAIN rc.labels)
              + Cardinality(DOMAIN rc.assertions) = Cardinality(returned)

C3_Witness ==
  \E u \in Units :
    /\ unit[u].phase = "done"
    /\ IsReportCase(results[u])
    /\ Len(results[u].evaluatorFailures) = 1
    /\ Cardinality(DOMAIN results[u].scores) = 1

C5_ConcurrencyBound ==
  (opts.maxConcurrency # Null /\ opts.maxConcurrency[1] >= 1) =>
    Cardinality(MidExecution) <= opts.maxConcurrency[1]

C5_Witness ==
  /\ opts.maxConcurrency = Some(2)
  /\ Len(tasksToRun) = 4
  /\ Cardinality(MidExecution) = 2
  /\ Len(queue) = 1
  /\ \E u \in Units : unit[u].phase = "done"

\* C6: in report.cases and in report.failures an entry submitted earlier
\* (case-major, repeat-minor) comes earlier, whatever order units settled in.
C6_SubmissionOrder ==
  report # Null =>
    /\ \A i, j \in 1..Len(Rep.cases) : i < j => Before(Rep.cases[i], Rep.cases[j])
    /\ \A i, j \in 1..Len(Rep.failures) : i < j => Before(Rep.failures[i], Rep.failures[j])

C6_Witness ==
  /\ pc = "returned"
  /\ overtook
  /\ Len(cases) = 2
  /\ opts.repeat = 2
  /\ Len(Rep.cases) = 2
  /\ Len(Rep.failures) = 2
  /\ CaseOf(Rep.cases[1]) = CaseOf(Rep.failures[1])

\* C7: the TaskRun of a unit holds exactly what the unit's own task
\* recorded, at every moment and in its ReportCase; calls by sibling tasks
\* and calls outside every task-run scope leave it unchanged.
C7_ScopeIsolated ==
  \A u \in Units :
    /\ u \in DOMAIN taskRuns => taskRuns[u] = own[u]
    /\ (IsSettled(results[u]) /\ IsReportCase(results[u])) =>
         /\ results[u].attributes = own[u].attributes
         /\ results[u].metrics = own[u].metrics

C7_Witness ==
  /\ pc = "returned"
  /\ overtook
  /\ recLeft = 0
  /\ \E i, j \in 1..Len(Rep.cases) :
       /\ "model" \in DOMAIN Rep.cases[i].attributes
       /\ "model" \in DOMAIN Rep.cases[j].attributes
       /\ Rep.cases[i].attributes["model"] = "a"
       /\ Rep.cases[j].attributes["model"] = "b"
       /\ "tokens" \in DOMAIN Rep.cases[j].metrics

\* C8: a unit leaves the limiter's queue only while fewer than
\* maxConcurrency units are mid-execution, and only when every unit
\* submitted before it has left the queue already.
C8_FifoAdmission ==
  [][\A v \in DOMAIN unit :
       (unit[v].phase = "queued" /\ unit'[v].phase # "queued") =>
         /\ \A w \in 1..(v - 1) : unit[w].phase # "queued"
         /\ (opts.maxConcurrency # Null /\ opts.maxConcurrency[1] >= 1) =>
              Cardinality(MidExecution) < opts.maxConcurrency[1]]_vars

C8_Witness ==
  /\ opts.maxConcurrency = Some(1)
  /\ Len(tasksToRun) = 4
  /\ unit[1].phase = "done"
  /\ unit[2].phase = "done"
  /\ unit[3].phase = "task"
  /\ unit[4].phase = "queued"

\* C9: every entry of the report has sourceCaseName null when repeat = 1,
\* and the name of the case it was run for (its own name or "Case N") when
\* repeat > 1.
C9_SourceCaseName ==
  report # Null =>
    \A list \in {Rep.cases, Rep.failures} :
      \A i \in 1..Len(list) :
        /\ opts.repeat = 1 => list[i].sourceCaseName = Null
        /\ opts.repeat > 1 => list[i].sourceCaseName = <<OriginName(CaseOf(list[i]))>>

C9_Witness ==
  /\ pc = "returned"
  /\ opts.repeat = 2
  /\ \E i \in 1..Len(Rep.cases) : Rep.cases[i].sourceCaseName = <<"Case 2">>
  /\ \E i \in 1..Len(Rep.failures) : Rep.failures[i].sourceCaseName = <<"n1">>

\* C10: with repeat < 1 evaluate rejects with the precondition error and
\* nothing has run: no unit exists, no task run was opened, no evaluator
\* or report evaluator ran and there is no report.
C10_RepeatPrecondition ==
  opts.repeat < 1 =>
    /\ pc \in {"init", "rejected"}
    /\ tasksToRun = <<>>
    /\ unit = <<>>
    /\ results = <<>>
    /\ DOMAIN taskRuns = {}
    /\ activeCount = 0
    /\ report = Null
    /\ repIdx = 1
    /\ pc = "rejected" => error # Null

C10_Witness ==
  /\ pc = "rejected"
  /\ opts.repeat < 1
  /\ Len(cases) = 2
  /\ Len(reportEvaluators) >= 1
  /\ error # Null

\* the results returned by the evaluators of unit u that did not throw,
\* concatenated in the order the evaluators are declared in
RECURSIVE DeclaredOutputs(_, _)
DeclaredOutputs(u, k) ==
  LET evs == allEvaluators(cases[tasksToRun[u].c])
  IN IF k > Len(evs) THEN <<>>
     ELSE (IF unit[u].evals[k].tag = "results"
           THEN EvaluatorDetails(evs[k], OutputOf(evs[k]))
           ELSE <<>>) \o DeclaredOutputs(u, k + 1)
\* the result names of a ReportCase and the entry stored under one
Keys(rc) == DOMAIN rc.scores \cup DOMAIN rc.labels \cup DOMAIN rc.assertions
EntryOf(rc, name) ==
  IF name \in DOMAIN rc.scores THEN rc.scores[name]
  ELSE IF name \in DOMAIN rc.labels THEN rc.labels[name]
  ELSE rc.assertions[name]
\* f gives result i of outs the name the renaming rule gives it, the names
\* f gives the results before i being the taken ones
Renamed(outs, f, i) ==
  LET taken == {f[j] : j \in 1..(i - 1)}
      suffixed(k) == outs[i].name \o "_" \o ToString(k)
  IN IF outs[i].name \notin taken
     THEN f[i] = outs[i].name
     ELSE \E k \in 2..(Len(outs) + 1) :
            /\ f[i] = suffixed(k)
            /\ suffixed(k) \notin taken
            /\ \A k2 \in 2..(k - 1) : suffixed(k2) \in taken
\* rc stores exactly the results outs, result i under the name f[i]
StoredAs(rc, outs, f) ==
  /\ Keys(rc) = {f[i] : i \in 1..Len(outs)}
  /\ \A i, j \in 1..Len(outs) : i # j => f[i] # f[j]
  /\ \A i \in 1..Len(outs) :
       /\ EntryOf(rc, f[i]).value = outs[i].value
       /\ EntryOf(rc, f[i]).source = outs[i].source
       /\ EntryOf(rc, f[i]).name = f[i]

C12_DedupLeftToRight ==
  \A u \in Units :
    (unit[u].phase = "done" /\ IsReportCase(results[u])) =>
      LET outs == DeclaredOutputs(u, 1)
          rc == results[u]
      IN \E f \in [1..Len(outs) -> Keys(rc)] :
           /\ StoredAs(rc, outs, f)
           /\ \A i \in 1..Len(outs) : Renamed(outs, f, i)

\* three evaluators named "check", the last one settling first
C12_Witness ==
  \E u \in Units :
    /\ unit[u].phase = "done"
    /\ unit[u].reordered
    /\ IsReportCase(results[u])
    /\ Len(DeclaredOutputs(u, 1)) = 3
    /\ \A i \in 1..3 : DeclaredOutputs(u, 1)[i].name = "check"
    /\ Keys(results[u]) = {"check", "check_2", "check_3"}

\* C12 as stated: as above, and the first result with a given name always
\* keeps that name.
C12_FirstKeepsName ==
  \A u \in Units :
    (unit[u].phase = "done" /\ IsReportCase(results[u])) =>
      LET outs == DeclaredOutputs(u, 1)
          rc == results[u]
      IN \E f \in [1..Len(outs) -> Keys(rc)] :
           /\ StoredAs(rc, outs, f)
           /\ \A i \in 1..Len(outs) :
                IF \A j \in 1..(i - 1) : outs[j].name # outs[i].name
                THEN f[i] = outs[i].name
                ELSE Renamed(outs, f, i)

\* C13: in every ReportCase no result name is a key of two of the maps
\* scores, labels and assertions, every key is the name of its entry, and
\* scores holds numbers, labels strings and assertions booleans, also when
\* evaluators returned results of the same name.
C13_TypedMapsDisjoint ==
  \A u \in Units :
    (IsSettled(results[u]) /\ IsReportCase(results[u])) =>
      LET rc == results[u]
      IN /\ DOMAIN rc.scores \cap DOMAIN rc.labels = {}
         /\ DOMAIN rc.scores \cap DOMAIN rc.assertions = {}
         /\ DOMAIN rc.labels \cap DOMAIN rc.assertions = {}
         /\ \A t \in {"number", "string", "boolean"} :
              \A name \in DOMAIN TypedMap(rc, t) :
                /\ TypedMap(rc, t)[name].name = name
                /\ TypedMap(rc, t)[name].value.t = t

\* a boolean and a number both named "check", and a third result
C13_Witness ==
  \E u \in Units :
    /\ unit[u].phase = "done"
    /\ IsReportCase(results[u])
    /\ Len(DeclaredOutputs(u, 1)) = 3
    /\ DeclaredOutputs(u, 1)[1].name = DeclaredOutputs(u, 1)[2].name
    /\ DOMAIN results[u].assertions = {"check"}
    /\ DOMAIN results[u].scores = {"check_2"}
    /\ DOMAIN results[u].labels # {}

\* the analyses and the failure records that report evaluator i contributed
AnalysesOf(i) ==
  SelectSeq(Rep.analyses,
            LAMBDA a : \E part \in 1..2 : a = Analysis(reportEvaluators[i], part))
ReportFailuresOf(i) ==
  SelectSeq(Rep.reportEvaluatorFailures,
            LAMBDA f : f.source = asSpec(reportEvaluators[i]))
RECURSIVE InTurn(_, _)
\* the concatenation of what the report evaluators i, i + 1, ... contributed
InTurn(Of(_), i) ==
  IF i > Len(reportEvaluators) THEN <<>> ELSE Of(i) \o InTurn(Of, i + 1)

\* C14: the report evaluators run one after the other in declaration
\* order, each once: one that returned has its analysis or analyses in
\* report.analyses and no failure record, one that threw has exactly one
\* record in report.reportEvaluatorFailures and no analysis, both lists are
\* in declaration order, and evaluate returns only after the last one ran.
C14_ReportEvaluatorsIsolated ==
  report # Null =>
    /\ \A i \in 1..Len(reportEvaluators) :
         LET ev == reportEvaluators[i]
         IN /\ i >= repIdx => (AnalysesOf(i) = <<>> /\ ReportFailuresOf(i) = <<>>)
            /\ i < repIdx =>
                 \/ /\ ReportFailuresOf(i) = <<>>
                    /\ AnalysesOf(i) \in { << Analysis(ev, 1) >>,
                                           << Analysis(ev, 1), Analysis(ev, 2) >> }
                 \/ /\ AnalysesOf(i) = <<>>
                    /\ Len(ReportFailuresOf(i)) = 1
                    /\ ReportFailuresOf(i)[1].name = getSerializationName(ev)
                    /\ ReportFailuresOf(i)[1].errorMessage = "TypeError: report boom"
    /\ Rep.analyses = InTurn(AnalysesOf, 1)
    /\ Rep.reportEvaluatorFailures = InTurn(ReportFailuresOf, 1)
    /\ pc = "returned" => repIdx > Len(reportEvaluators)
    /\ pc # "rejected"

C14_Witness ==
  /\ pc = "returned"
  /\ Len(reportEvaluators) = 2
  /\ Len(ReportFailuresOf(1)) = 1
  /\ Len(AnalysesOf(2)) = 2
  /\ Len(Rep.analyses) = 2

\* q starts with the entries of p
IsPrefix(p, q) == Len(p) <= Len(q) /\ SubSeq(q, 1, Len(p)) = p

\* C15: whenever a report evaluator is about to run, is running or has
\* run, every unit has finished its task and its evaluators and the report
\* holds one entry per unit; from the assembly of the report on no unit
\* takes a step and report.cases and report.failures never change, while
\* analyses and reportEvaluatorFailures only grow at their end.
C15_ReportEvaluatorsAfterCases ==
  [][ /\ (pc' \in {"reportEvals", "returned"} \/ repIdx' > 1) =>
           /\ report' # Null
           /\ \A u \in DOMAIN unit' : unit'[u].phase = "done" /\ IsSettled(results'[u])
           /\ Len(report'[1].cases) + Len(report'[1].failures) = Len(tasksToRun')
      /\ report # Null =>
           /\ report' # Null
           /\ report'[1].cases = report[1].cases
           /\ report'[1].failures = report[1].failures
           /\ IsPrefix(report[1].analyses, report'[1].analyses)
           /\ IsPrefix(report[1].reportEvaluatorFailures,
                       report'[1].reportEvaluatorFailures)
           /\ unit' = unit
           /\ results' = results
           /\ activeCount' = activeCount ]_vars

C15_Witness ==
  /\ pc = "reportEvals"
  /\ repIdx = 2
  /\ Len(tasksToRun) >= 2
  /\ overtook
  /\ Len(Rep.cases) >= 1
  /\ Len(Rep.failures) >= 1
  /\ Len(Rep.analyses) + Len(Rep.reportEvaluatorFailures) = 1

\* the non-null names of a list of cases, one per case that has one
NamesIn(cs) == {i \in 1..Len(cs) : cs[i].name # Null}
DistinctNames(cs) == \A i, j \in NamesIn(cs) : i # j => cs[i].name # cs[j].name

\* C16: the cases of a dataset never hold the same non-null name twice. The
\* constructor throws "Duplicate case name" exactly when its cases do and
\* then builds nothing, and otherwise takes them all; addCase throws it
\* exactly when the name of the new case is already there, leaving the
\* cases as they were, and otherwise appends the case; unnamed cases are
\* always accepted; addEvaluator changes neither the cases' number nor names.
C16_UniqueCaseNames ==
  call.op = "dataset" =>
    LET last == call.last
    IN /\ DistinctNames(cases)
       /\ pc = "threw" =>
            /\ cases = <<>>
            /\ ~DistinctNames(call.cases)
            /\ \E i \in NamesIn(call.cases) :
                 last.thrown = Some("Duplicate case name: '" \o call.cases[i].name[1] \o "'")
       /\ (pc = "built" /\ last.op = "new") =>
            (cases = call.cases /\ DistinctNames(call.cases))
       /\ (last.op = "addCase" /\ last.thrown # Null) =>
            /\ last.arg[1].name # Null
            /\ \E i \in NamesIn(cases) : cases[i].name = last.arg[1].name
            /\ last.thrown
                 = Some("Duplicate case name: '" \o last.arg[1].name[1] \o "'")
       /\ (last.op = "addCase" /\ last.thrown = Null) =>
            /\ cases # <<>>
            /\ cases[Len(cases)] = last.arg[1]
       /\ (last.op = "addCase" /\ last.arg[1].name = Null) => last.thrown = Null
       /\ pc = "built" =>
            /\ Len(cases) >= Len(call.cases)
            /\ \A i \in 1..Len(call.cases) : cases[i].name = call.cases[i].name

\* a duplicate was refused by addCase after two unnamed cases and a named
\* one were accepted
C16_Witness ==
  /\ call.op = "dataset"
  /\ pc = "built"
  /\ call.last.op = "addCase"
  /\ call.last.thrown = Some("Duplicate case name: 'a'")
  /\ Len(cases) = 3
  /\ Cardinality({i \in 1..Len(cases) : cases[i].name = Null}) = 2

\* C17: for a report produced by evaluate on a dataset with at least one
\* case, caseGroups() is null when repeat = 1, and when repeat = r > 1 it is
\* non-null and contains exactly one group per dataset case, the group of a
\* case holding exactly that case's r units (successful runs and failures).
C17_OneGroupPerCase ==
  (pc = "returned" /\ Len(cases) > 0) =>
    LET groups == computeCaseGroups(Get(report))
        OfCase(entries, c) == \A i \in 1..Len(entries) : entries[i].inputs = cases[c].inputs
    IN IF opts.repeat = 1 THEN groups = Null
       ELSE /\ groups # Null
            /\ Len(Get(groups)) = Len(cases)
            /\ \A c \in 1..Len(cases) :
                 \E g \in 1..Len(Get(groups)) :
                   /\ OfCase(Get(groups)[g].runs, c)
                   /\ OfCase(Get(groups)[g].failures, c)
                   /\ Len(Get(groups)[g].runs) + Len(Get(groups)[g].failures)
                        = opts.repeat

\* the sum of F over the finite set S, and its arithmetic mean
RECURSIVE SumOf(_, _)
SumOf(F(_), S) ==
  IF S = {} THEN Rat(0, 1)
  ELSE LET x == CHOOSE y \in S : TRUE IN RatAdd(F(x), SumOf(F, S \ {x}))
MeanOf(F(_), S) == Rat(SumOf(F, S).num, SumOf(F, S).den * Cardinality(S))
\* the positions of cs whose case has an entry named k in the given field
WithName(cs, field, k) == {i \in 1..Len(cs) : k \in DOMAIN cs[i][field]}
NamesPresent(cs, field) == UNION {DOMAIN cs[i][field] : i \in 1..Len(cs)}

\* C20: for every non-empty list of cases, averageCases gives each score
\* name and each metric name the sum of its values over the cases that have
\* the name divided by the number of cases that have it; the result has a
\* key exactly for the names present in at least one case; taskDuration and
\* totalDuration are the arithmetic means over all cases.
C20_AverageCasesPresentOnly ==
  (call.op = "averageCases" /\ call.result # Pending /\ Len(call.cases) > 0) =>
    LET cs == call.cases
        avg == call.result
    IN /\ DOMAIN avg.scores = NamesPresent(cs, "scores")
       /\ \A k \in NamesPresent(cs, "scores") :
            avg.scores[k]
              = MeanOf(LAMBDA i : Rat(NumberOf(cs[i].scores[k]), 1), WithName(cs, "scores", k))
       /\ DOMAIN avg.metrics = NamesPresent(cs, "metrics")
       /\ \A k \in NamesPresent(cs, "metrics") :
            avg.metrics[k]
              = MeanOf(LAMBDA i : Rat(cs[i].metrics[k], 1), WithName(cs, "metrics", k))
       /\ avg.taskDuration = MeanOf(LAMBDA i : Rat(cs[i].taskDuration, 1), 1..Len(cs))
       /\ avg.totalDuration = MeanOf(LAMBDA i : Rat(cs[i].totalDuration, 1), 1..Len(cs))

\* averageCases returned for three cases of which two have the score s and
\* a different two the metric m
C20_Witness ==
  /\ call.op = "averageCases"
  /\ call.result # Pending
  /\ Len(call.cases) = 3
  /\ Cardinality(WithName(call.cases, "scores", "s")) = 2
  /\ Cardinality(WithName(call.cases, "metrics", "m")) = 2
  /\ WithName(call.cases, "scores", "s") # WithName(call.cases, "metrics", "m")
  /\ call.result.scores["s"] = Rat(3, 2)
  /\ call.result.metrics["m"] = Rat(2, 1)

\* the key an entry is grouped under: its source name, or its own name
KeyOf(entry) ==
  IF entry.sourceCaseName # Null THEN entry.sourceCaseName[1] ELSE entry.name
\* how often entry occurs in list
Occurrences(list, entry) == Cardinality({i \in 1..Len(list) : list[i] = entry})
\* the entries of list that belong under key, in the order of list
Under(list, key) == SelectSeq(list, LAMBDA entry : KeyOf(entry) = key)

\* C18: whenever caseGroups() is non-null, every ReportCase and every
\* ReportCaseFailure of the report appears in exactly one group, the group
\* whose name equals its sourceCaseName (or its own name when that is
\* null); no group is empty; each group's summary equals averageCases of
\* that group's successful runs only.
C18_GroupsPartitionReport ==
  (call.op = "report" /\ call.result # Pending /\ call.result.caseGroups # Null) =>
    LET rep == call.report
        groups == Get(call.result.caseGroups)
        G == 1..Len(groups)
    IN /\ \A g, h \in G : groups[g].name = groups[h].name => g = h
       /\ \A i \in 1..Len(rep.cases) :
            \E g \in G :
              /\ groups[g].name = KeyOf(rep.cases[i])
              /\ Occurrences(groups[g].runs, rep.cases[i])
                   = Occurrences(rep.cases, rep.cases[i])
              /\ \A h \in G \ {g} : Occurrences(groups[h].runs, rep.cases[i]) = 0
       /\ \A i \in 1..Len(rep.failures) :
            \E g \in G :
              /\ groups[g].name = KeyOf(rep.failures[i])
              /\ Occurrences(groups[g].failures, rep.failures[i])
                   = Occurrences(rep.failures, rep.failures[i])
              /\ \A h \in G \ {g} : Occurrences(groups[h].failures, rep.failures[i]) = 0
       /\ \A g \in G :
            /\ Len(groups[g].runs) + Len(groups[g].failures) > 0
            /\ Len(groups[g].runs) = Len(Under(rep.cases, groups[g].name))
            /\ Len(groups[g].failures) = Len(Under(rep.failures, groups[g].name))
            /\ groups[g].summary = averageCases(Under(rep.cases, groups[g].name))
            /\ Len(groups[g].runs) > 0 =>
                 groups[g].summary.taskDuration
                   = MeanOf(LAMBDA i : Rat(rep.cases[i].taskDuration, 1),
                            {i \in 1..Len(rep.cases) : KeyOf(rep.cases[i]) = groups[g].name})

\* caseGroups() returned a group of two runs, a case without source name
\* next to a run with that source name, and another group that holds one
\* run and one failure
C18_Witness ==
  /\ call.op = "report"
  /\ call.result # Pending
  /\ call.result.caseGroups # Null
  /\ \E g, h \in 1..Len(Get(call.result.caseGroups)) :
       LET grp == Get(call.result.caseGroups)[g]
           other == Get(call.result.caseGroups)[h]
       IN /\ Len(grp.runs) = 2
          /\ \E i \in 1..2 : grp.runs[i].sourceCaseName = Null
          /\ \E i \in 1..2 : grp.runs[i].sourceCaseName # Null
          /\ Len(other.runs) = 1
          /\ Len(other.failures) = 1

\* the keys under which rep has at least one successful case
KeysWithRuns(rep) == {KeyOf(rep.cases[i]) : i \in 1..Len(rep.cases)}
\* the positions of the cases of rep under key that have an entry named k
\* in the given field
RunsWith(rep, key, field, k) ==
  {i \in WithName(rep.cases, field, k) : KeyOf(rep.cases[i]) = key}
CarriesSourceNames(rep) ==
  \/ \E i \in 1..Len(rep.cases) : rep.cases[i].sourceCaseName # Null
  \/ \E i \in 1..Len(rep.failures) : rep.failures[i].sourceCaseName # Null

\* C19: report.averages() returns null exactly when the report has no
\* successful case; otherwise, for a report whose cases or failures carry
\* source names it returns averageFromAggregates over the summaries of the
\* groups that have at least one successful run (a mean of per-group means,
\* groups with only failures excluded), and for a report without source
\* names it returns averageCases over report.cases.
C19_AveragesOfReport ==
  (call.op = "report" /\ call.result # Pending) =>
    LET rep == call.report
        averages == call.result.averages
        withRuns == SelectSeq(Get(call.result.caseGroups), LAMBDA g : Len(g.runs) > 0)
    IN /\ averages = Null <=> Len(rep.cases) = 0
       /\ (Len(rep.cases) > 0 /\ ~CarriesSourceNames(rep)) =>
            averages = Some(averageCases(rep.cases))
       /\ (Len(rep.cases) > 0 /\ CarriesSourceNames(rep)) =>
            /\ call.result.caseGroups # Null
            /\ averages
                 = Some(averageFromAggregates([g \in 1..Len(withRuns) |-> withRuns[g].summary]))
            /\ Len(withRuns) = Cardinality(KeysWithRuns(rep))
            /\ DOMAIN Get(averages).scores = NamesPresent(rep.cases, "scores")
            /\ \A k \in NamesPresent(rep.cases, "scores") :
                 Get(averages).scores[k]
                   = MeanOf(LAMBDA key :
                              MeanOf(LAMBDA i : Rat(NumberOf(rep.cases[i].scores[k]), 1),
                                     RunsWith(rep, key, "scores", k)),
                            {key \in KeysWithRuns(rep) : RunsWith(rep, key, "scores", k) # {}})
            /\ Get(averages).taskDuration
                 = MeanOf(LAMBDA key :
                            MeanOf(LAMBDA i : Rat(rep.cases[i].taskDuration, 1),
                                   {i \in 1..Len(rep.cases) : KeyOf(rep.cases[i]) = key}),
                          KeysWithRuns(rep))

\* averages() returned for a report with a group of two runs, a group of
\* one run and a group that has only a failure: the average of the score s
\* is the mean of the two group means and not the mean over the three runs
C19_Witness ==
  /\ call.op = "report"
  /\ call.result # Pending
  /\ call.result.averages # Null
  /\ call.result.caseGroups # Null
  /\ LET groups == Get(call.result.caseGroups)
     IN /\ Len(groups) = 3
        /\ \E g \in 1..3 : Len(groups[g].runs) = 0 /\ Len(groups[g].failures) = 1
        /\ \E g \in 1..3 : Len(groups[g].runs) = 2
        /\ \E g \in 1..3 : Len(groups[g].runs) = 1
  /\ Cardinality(WithName(call.report.cases, "scores", "s")) = 3
  /\ Get(call.result.averages).scores["s"] = Rat(3, 4)
  /\ averageCases(call.report.cases).scores["s"] = Rat(1, 1)

\* the assertion entries of the cases cs, as (position, name) pairs
AssertionEntries(cs) ==
  {<<i, k>> : i \in 1..Len(cs), k \in NamesPresent(cs, "assertions")}
    \cap UNION {{<<i, k>> : k \in DOMAIN cs[i].assertions} : i \in 1..Len(cs)}

\* C21: averageCases returns as assertions the single pass rate (number of
\* true assertion values over all names and cases) / (number of assertion
\* entries over all cases), and null, not zero, when no case has any
\* assertion.
C21_AssertionsPassRate ==
  (call.op = "averageCases" /\ call.result # Pending) =>
    LET cs == call.cases
        all == AssertionEntries(cs)
        passing == {e \in all : cs[e[1]].assertions[e[2]].value = Scalar("boolean", "true")}
    IN /\ all = {} <=> call.result.assertions = Null
       /\ all # {} =>
            /\ Get(call.result.assertions).num * Cardinality(all)
                 = Get(call.result.assertions).den * Cardinality(passing)
            /\ call.result.assertions = Some(Rat(Cardinality(passing), Cardinality(all)))

\* the example: assertion values [true, false] and [true, true] in two
\* cases give 3/4
C21_Witness ==
  /\ call.op = "averageCases"
  /\ call.result # Pending
  /\ Len(call.cases) = 2
  /\ \E i, j \in 1..2 :
       /\ {call.cases[i].assertions[k].value.v : k \in DOMAIN call.cases[i].assertions}
            = {"true", "false"}
       /\ DOMAIN call.cases[j].assertions = {"a", "b"}
       /\ \A k \in {"a", "b"} : call.cases[j].assertions[k].value.v = "true"
  /\ call.result.assertions = Some(Rat(3, 4))

\* the positions of cs whose label named k has the value v
Labelled(cs, k, v) == {i \in WithName(cs, "labels", k) : cs[i].labels[k].value.v = v}

\* C22: for every non-empty list of cases and every label name that occurs,
\* averageCases returns a distribution over the observed label values: each
\* value's entry is (number of cases whose label of that name equals the
\* value) / (number of cases that have that label name), and the entries of
\* one label name sum to 1.
C22_LabelDistributions ==
  (call.op = "averageCases" /\ call.result # Pending /\ Len(call.cases) > 0) =>
    LET cs == call.cases
        avg == call.result.labels
    IN /\ DOMAIN avg = NamesPresent(cs, "labels")
       /\ \A k \in NamesPresent(cs, "labels") :
            /\ DOMAIN avg[k] = {cs[i].labels[k].value.v : i \in WithName(cs, "labels", k)}
            /\ \A v \in DOMAIN avg[k] :
                 avg[k][v] = Rat(Cardinality(Labelled(cs, k, v)),
                                 Cardinality(WithName(cs, "labels", k)))
            /\ SumOf(LAMBDA v : avg[k][v], DOMAIN avg[k]) = Rat(1, 1)

\* averageCases returned for a longest list of cases of which all but one
\* have the label l, with the value x in some and y in others
C22_Witness ==
  /\ call.op = "averageCases"
  /\ call.result # Pending
  /\ Len(call.cases) = MaxReportCases
  /\ Cardinality(WithName(call.cases, "labels", "l")) = MaxReportCases - 1
  /\ Cardinality(Labelled(call.cases, "l", "x")) >= 1
  /\ Cardinality(Labelled(call.cases, "l", "y")) >= 1
  /\ DOMAIN call.result.labels["l"] = {"x", "y"}

\* the aggregates among aggs that have an entry named k in the given field
Reporting(aggs, field, k) == {g \in 1..Len(aggs) : k \in DOMAIN aggs[g][field]}
\* the frequency aggregate g gives the value v of the label k
Mass(aggs, g, k, v) ==
  IF v \in DOMAIN aggs[g].labels[k] THEN aggs[g].labels[k][v] ELSE Rat(0, 1)
\* n times the fraction a
Scaled(n, a) == Rat(n * a.num, a.den)

\* C23 (amended): averageFromAggregates combines label distributions by an
\* unweighted re-normalization: for each label name, every group's
\* distribution mass is summed as it is, not scaled by the group's sample
\* count, and the sum is renormalized by the number of groups that reported
\* that label name at all.
C23_LabelsUnweightedMean ==
  (call.op = "averageFromAggregates" /\ call.result # Pending /\ Len(call.aggregates) > 0) =>
    LET aggs == call.aggregates
        avg == call.result.labels
    IN /\ DOMAIN avg = UNION {DOMAIN aggs[g].labels : g \in 1..Len(aggs)}
       /\ \A k \in DOMAIN avg :
            /\ DOMAIN avg[k]
                 = UNION {DOMAIN aggs[g].labels[k] : g \in Reporting(aggs, "labels", k)}
            /\ \A v \in DOMAIN avg[k] :
                 avg[k][v] = MeanOf(LAMBDA g : Mass(aggs, g, k, v),
                                    Reporting(aggs, "labels", k))
            /\ SumOf(LAMBDA v : avg[k][v], DOMAIN avg[k]) = Rat(1, 1)

\* C23 as stated: every group's distribution mass is scaled by that group's
\* sample count before being summed, and the sum is renormalized by the
\* number of groups that reported the label name.
C23_LabelsCountWeighted ==
  (call.op = "averageFromAggregates" /\ call.result # Pending /\ Len(call.aggregates) > 0) =>
    LET aggs == call.aggregates
        avg == call.result.labels
    IN \A k \in DOMAIN avg : \A v \in DOMAIN avg[k] :
         avg[k][v]
           = MeanOf(LAMBDA g : Scaled(Len(call.groups[g]), Mass(aggs, g, k, v)),
                    Reporting(aggs, "labels", k))

\* averageFromAggregates returned for the summaries of a group of two runs
\* with the label frequencies x 1/2, y 1/2 and of a group of one run with
\* the frequency x 1
C23_Witness ==
  /\ call.op = "averageFromAggregates"
  /\ call.result # Pending
  /\ Len(call.aggregates) = 2
  /\ \E g, h \in 1..2 :
       /\ Len(call.groups[g]) = 2
       /\ Len(call.groups[h]) = 1
       /\ Reporting(call.aggregates, "labels", "l") = {g, h}
       /\ call.aggregates[g].labels["l"] = Put(Put(EmptyMap, "x", Rat(1, 2)), "y", Rat(1, 2))
       /\ call.aggregates[h].labels["l"] = Put(EmptyMap, "x", Rat(1, 1))
  /\ call.result.labels["l"] = Put(Put(EmptyMap, "x", Rat(3, 4)), "y", Rat(1, 4))

\* C24: averageFromAggregates returns as assertions the plain mean of the
\* non-null assertion averages of its inputs, inputs with a null assertion
\* average being left out of the sum and of the divisor, and null when every
\* input's assertion average is null; scores and metrics are averaged per
\* key over only the aggregates that have the key.
C24_AggregatesPresentOnly ==
  (call.op = "averageFromAggregates" /\ call.result # Pending) =>
    LET aggs == call.aggregates
        avg == call.result
        asserting == {g \in 1..Len(aggs) : aggs[g].assertions # Null}
        PerKey(field) ==
          /\ DOMAIN avg[field] = UNION {DOMAIN aggs[g][field] : g \in 1..Len(aggs)}
          /\ \A k \in DOMAIN avg[field] :
               avg[field][k] = MeanOf(LAMBDA g : aggs[g][field][k], Reporting(aggs, field, k))
    IN /\ asserting = {} <=> avg.assertions = Null
       /\ asserting # {} =>
            avg.assertions = Some(MeanOf(LAMBDA g : aggs[g].assertions[1], asserting))
       /\ PerKey("scores")
       /\ PerKey("metrics")

\* averageFromAggregates returned for two aggregates of which one has a null
\* assertion average and the other one of 1, and neither has the other's
\* score name
C24_Witness ==
  /\ call.op = "averageFromAggregates"
  /\ call.result # Pending
  /\ Len(call.aggregates) = 2
  /\ \E g, h \in 1..2 :
       /\ call.aggregates[g].assertions = Null
       /\ call.aggregates[h].assertions = Some(Rat(1, 1))
       /\ DOMAIN call.aggregates[g].scores = {"t"}
       /\ DOMAIN call.aggregates[h].scores = {"s"}
       /\ DOMAIN call.aggregates[g].metrics = {"m"}
       /\ DOMAIN call.aggregates[h].metrics = {"m"}
  /\ call.result.assertions = Some(Rat(1, 1))
  /\ call.result.scores = Put(Put(EmptyMap, "s", Rat(1, 1)), "t", Rat(2, 1))
  /\ call.result.metrics = Put(EmptyMap, "m", Rat(2, 1))

\* C25: when an evaluator returns a map from result names to scalars or
\* {value, reason} pairs, runEvaluator returns exactly one EvaluationResult
\* per map entry, named by the entry's own key and carrying the entry's
\* value and reason (null when absent), whatever the keys are, the empty map
\* giving zero results.
C25_OneResultPerEntry ==
  (/\ call.op = "runEvaluator"
   /\ call.result # Pending
   /\ call.outcome.tag = "returned"
   /\ call.outcome.raw.shape = "map") =>
    LET entries == call.outcome.raw.entries
    IN /\ call.result.tag = "results"
       /\ Len(call.result.details) = Len(entries)
       /\ \A i \in 1..Len(entries) :
            \E j \in 1..Len(entries) :
              LET d == call.result.details[j]
              IN /\ d.name = entries[i][1]
                 /\ d.value = entries[i][2].value
                 /\ d.reason = (IF entries[i][2].shape = "reason"
                                THEN entries[i][2].reason ELSE Null)
                 /\ d.source = asSpec(call.evaluator)

\* C26: when an evaluator returns a bare boolean, number or string, or a
\* {value, reason?} pair, runEvaluator returns exactly one EvaluationResult
\* whose name is the evaluator's default evaluation name (its evaluationName
\* field when that is a string, otherwise its class name), whose value is
\* the scalar and whose reason is the given reason or null.
C26_SingleNamedResult ==
  (/\ call.op = "runEvaluator"
   /\ call.result # Pending
   /\ call.outcome.tag = "returned"
   /\ call.outcome.raw.shape \in {"scalar", "reason"}) =>
    LET raw == call.outcome.raw
        ev == call.evaluator
    IN /\ call.result.tag = "results"
       /\ Len(call.result.details) = 1
       /\ call.result.details[1].name
            = (IF ev.evaluationName # Null THEN ev.evaluationName[1] ELSE ev.cls)
       /\ call.result.details[1].value = raw.value
       /\ call.result.details[1].reason
            = (IF raw.shape = "reason" THEN raw.reason ELSE Null)

\* an evaluator with the evaluationName check returned a pair with a reason,
\* and the single result is named check and carries the reason
C26_Witness ==
  /\ call.op = "runEvaluator"
  /\ call.evaluator.evaluationName = Some("check")
  /\ call.evaluator.cls = "Grade"
  /\ call.outcome = Returned(RawReason(Scalar("boolean", "false"), Some("why")))
  /\ call.result # Pending
  /\ call.result.details
       = << [name |-> "check", value |-> Scalar("boolean", "false"),
             reason |-> Some("why"), source |-> [name |-> "Grade", arguments |-> Null]] >>

\* the name the k-th run of the case at 1-based position c is to have
UnitName(c, k) ==
  IF opts.repeat = 1 THEN OriginName(c)
  ELSE OriginName(c) \o " [" \o ToString(k) \o "/" \o ToString(opts.repeat) \o "]"

\* C27: unit names follow the case position: with repeat = 1 the unit of the
\* case at 0-based index i is named case.name, or "Case {i+1}" when the case
\* has no name; with repeat = r > 1 its k-th run is named
\* "{caseName} [{k}/{r}]"; the entries of the report carry these names, in
\* dataset order when every unit succeeded.
C27_UnitNamesFollowPosition ==
  pc # "init" =>
    /\ Len(tasksToRun) = Len(cases) * opts.repeat
    /\ \A c \in 1..Len(cases), k \in 1..opts.repeat :
         LET u == (c - 1) * opts.repeat + k
         IN /\ tasksToRun[u].c = c
            /\ tasksToRun[u].reportName = UnitName(c, k)
            /\ results[u] # Pending => results[u].name = UnitName(c, k)
    /\ (pc = "returned" /\ Rep.failures = <<>>) =>
         /\ Len(Rep.cases) = Len(tasksToRun)
         /\ \A c \in 1..Len(cases), k \in 1..opts.repeat :
              Rep.cases[(c - 1) * opts.repeat + k].name = UnitName(c, k)

\* the example: two unnamed cases evaluated once are reported as Case 1 and
\* Case 2, in this order
C27_Witness ==
  /\ pc = "returned"
  /\ opts.repeat = 1
  /\ Len(cases) = 2
  /\ \A c \in 1..2 : cases[c].name = Null
  /\ Len(Rep.cases) = 2
  /\ Rep.cases[1].name = "Case 1" /\ Rep.cases[1].inputs = cases[1].inputs
  /\ Rep.cases[2].name = "Case 2" /\ Rep.cases[2].inputs = cases[2].inputs

\* C28: for a unit whose task throws, no evaluator (case-level or
\* dataset-level) is ever invoked, and the unit results in a
\* ReportCaseFailure that carries errorMessage "{ErrorType}: {message}" and
\* the error's stack trace, or the empty string when there is none.
C28_FailedTaskSkipsEvaluators ==
  \A u \in Units :
    unit[u].threw >= 1 =>
      /\ unit[u].phase # "evals"
      /\ unit[u].evals = <<>>
      /\ IsSettled(results[u]) =>
           LET e == ToError(TaskThrown(tasksToRun[u].c))
           IN /\ IsFailure(results[u])
              /\ results[u].errorMessage = e.name \o ": " \o e.message
              /\ results[u].errorStacktrace = OrElse(e.stack, "")

\* the failure an evaluator yields that read the span tree of unit u when
\* none was recorded
IsRecordingFailure(r) ==
  /\ r.tag = "failure"
  /\ \E what \in {"install @opentelemetry/api and @opentelemetry/sdk-trace-base.",
                  "configure an OpenTelemetry tracer provider before running an evaluation."} :
       r.failure.errorMessage
         = "SpanTreeRecordingError: To make use of the span tree in an evaluator, you must "
             \o what

\* C29: when no span tree could be recorded, the task still runs and the
\* unit is still reported as a ReportCase; the recording error is raised
\* only when an evaluator reads ctx.spanTree, and then that evaluator alone
\* yields an EvaluatorFailure, while the evaluators of the same unit that
\* never read the span tree produce their normal results.
C29_RecordingErrorDeferred ==
  \A u \in Units :
    LET evs == allEvaluators(cases[tasksToRun[u].c])
        rs == unit[u].evals
        readers == {k \in 1..Len(evs) : "readsSpanTree" \in DOMAIN evs[k]}
    IN /\ (otel # "provider" /\ unit[u].phase \in {"evals", "done"}) =>
            /\ unit[u].calls = 1
            /\ unit[u].phase = "done" => IsReportCase(results[u])
       /\ \A k \in 1..Len(rs) :
            rs[k] # Pending =>
              /\ IsRecordingFailure(rs[k]) => (k \in readers /\ otel # "provider")
              /\ (k \in readers /\ otel # "provider") => rs[k].tag = "failure"
              /\ rs[k].tag = "results" =>
                   rs[k].details = EvaluatorDetails(evs[k], OutputOf(evs[k]))
              /\ rs[k].tag = "failure" =>
                   \/ IsRecordingFailure(rs[k])
                   \/ rs[k].failure.errorMessage = "Error: evaluator boom"
       /\ unit[u].phase = "done" =>
            Len(results[u].evaluatorFailures)
              = Cardinality({k \in 1..Len(rs) : rs[k].tag = "failure"})

\* without OpenTelemetry installed a unit with three evaluators is reported
\* as a ReportCase: the one that read the span tree is its only evaluator
\* failure and the other two have their results in the report
C29_Witness ==
  /\ pc = "returned"
  /\ otel = "missing"
  /\ Len(Rep.cases) = 1
  /\ Len(unit[1].evals) = 3
  /\ Cardinality({k \in 1..3 : IsRecordingFailure(unit[1].evals[k])}) = 1
  /\ Cardinality({k \in 1..3 : unit[1].evals[k].tag = "results"}) = 2
  /\ Len(Rep.cases[1].evaluatorFailures) = 1
  /\ Rep.cases[1].evaluatorFailures[1].name = "HasMatchingSpan"
  /\ DOMAIN Rep.cases[1].assertions = {"check"}
  /\ DOMAIN Rep.cases[1].labels = {"check_2"}

\* C30 (stated as in the specification; the program violates it): every
\* evaluator e of a dataset whose class is in the registry is re-instantiated,
\* from deserializeEvaluatorSpec(serializeEvaluatorSpec(e.asSpec())), as an
\* evaluator e' with e'.asSpec() equal to e.asSpec(), whether the spec has no
\* arguments, one positional argument or keyword arguments.
C30_SpecRoundTrip ==
  (/\ call.op = "loadEvaluator"
   /\ call.result # Pending
   /\ \E i \in 1..Len(buildRegistry(call.customEvaluatorTypes, DEFAULT_EVALUATORS)) :
        buildRegistry(call.customEvaluatorTypes, DEFAULT_EVALUATORS)[i]
          = getSerializationName(call.evaluator))
    => /\ call.result.tag = "returned"
       /\ asSpec(call.result.raw) = asSpec(call.evaluator)

\* C31: averageCases applied to the empty list returns the aggregate with
\* empty scores, labels and metrics, assertions null, taskDuration 0 and
\* totalDuration 0.
C31_EmptyListAggregate ==
  (call.op = "averageCases" /\ call.result # Pending /\ Len(call.cases) = 0) =>
    /\ DOMAIN call.result.scores = {}
    /\ DOMAIN call.result.labels = {}
    /\ DOMAIN call.result.metrics = {}
    /\ call.result.assertions = Null
    /\ call.result.taskDuration.num = 0
    /\ call.result.totalDuration.num = 0

\* averageCases([]) has returned
C31_Witness ==
  /\ call.op = "averageCases"
  /\ call.cases = <<>>
  /\ call.result # Pending
  /\ call.result.name = "Averages"

\* C32 (stated as in the specification; the program violates it): the task
\* function of every scheduled unit is invoked exactly once, an invocation
\* that throws is never retried, and the single outcome decides the unit:
\* a unit whose task threw is a ReportCaseFailure, any other a ReportCase.
C32_TaskInvokedOnce ==
  \A u \in Units :
    /\ unit[u].calls <= 1
    /\ unit[u].phase # "queued" => unit[u].calls = 1
    /\ IsSettled(results[u]) => (IsFailure(results[u]) <=> unit[u].threw = 1)

\* C33: for a unit whose task succeeded, the case's own evaluators followed
\* by the dataset's evaluators are each invoked exactly once, none before
\* the task has completed; what they are given (output, task duration,
\* attributes, metrics, span tree) is the same for all of them, staying as it
\* is from the first invocation to the ReportCase, and a settled evaluator
\* is never run again. A unit without any evaluator is still a ReportCase,
\* with empty scores, labels, assertions and evaluatorFailures.
C33_EvaluatorsOnceAfterTask ==
  /\ [](\A u \in Units :
          LET evs == cases[tasksToRun[u].c].evaluators \o evaluators
              rs == unit[u].evals
          IN /\ unit[u].phase \in {"queued", "task"} => rs = <<>>
             /\ TaskSucceeded(u) =>
                  /\ Len(rs) = Len(evs)
                  /\ \A k \in 1..Len(rs) :
                       /\ rs[k].tag = "results" =>
                            \A i \in 1..Len(rs[k].details) :
                              rs[k].details[i].source = asSpec(evs[k])
                       /\ rs[k].tag = "failure" => rs[k].failure.source = asSpec(evs[k])
                  /\ unit[u].phase = "done" =>
                       /\ IsReportCase(results[u])
                       /\ results[u].output = "out:" \o cases[tasksToRun[u].c].inputs
                       /\ results[u].taskDuration = 1
                       /\ results[u].attributes = taskRuns[u].attributes
                       /\ results[u].metrics = taskRuns[u].metrics
                       /\ Len(evs) = 0 =>
                            /\ DOMAIN results[u].scores = {}
                            /\ DOMAIN results[u].labels = {}
                            /\ DOMAIN results[u].assertions = {}
                            /\ results[u].evaluatorFailures = <<>>)
  /\ [][\A u \in DOMAIN unit :
          unit[u].phase = "evals" =>
            /\ taskRuns'[u] = taskRuns[u]
            /\ unit'[u].where = unit[u].where
            /\ otel' = otel
            /\ Len(unit'[u].evals) = Len(unit[u].evals)
            /\ \A k \in 1..Len(unit[u].evals) :
                 unit[u].evals[k] # Pending => unit'[u].evals[k] = unit[u].evals[k]]_vars

\* a finished unit with at least one evaluator of its case and one of the
\* dataset, all of which returned, a later one settling before an earlier
C33_Witness ==
  \E u \in Units :
    /\ unit[u].phase = "done"
    /\ TaskSucceeded(u)
    /\ Len(cases[tasksToRun[u].c].evaluators) >= 1
    /\ Len(evaluators) >= 1
    /\ \A k \in 1..Len(unit[u].evals) : unit[u].evals[k].tag = "results"
    /\ unit[u].reordered

\* the number of results an evaluator's output stands for: one for a scalar
\* or a reason, one per entry for a Record
ResultCount(raw) == IF raw.shape = "map" THEN Len(raw.entries) ELSE 1

\* C34 (stated as in the specification; the program violates it): in the
\* ReportCase of a unit the entries of scores, labels and assertions are as
\* many as the results returned by the evaluators that did not throw (one
\* per scalar or reasoned output, one per entry of a Record), also when
\* results share a name, and the evaluatorFailures are as many as the
\* evaluators that threw.
C34_NoOutputLost ==
  \A u \in Units :
    (unit[u].phase = "done" /\ IsReportCase(results[u])) =>
      LET rc == results[u]
          rs == unit[u].evals
          evs == allEvaluators(cases[tasksToRun[u].c])
          returned == {k \in 1..Len(rs) : rs[k].tag = "results"}
      IN /\ Cardinality(DOMAIN rc.scores) + Cardinality(DOMAIN rc.labels)
              + Cardinality(DOMAIN rc.assertions)
              = Reduce([k \in 1..Len(rs) |->
                          IF k \in returned THEN ResultCount(OutputOf(evs[k])) ELSE 0], 1)
         /\ Len(rc.evaluatorFailures) = Len(rs) - Cardinality(returned)

\* C35: when every invocation terminates, then with maxConcurrency >= 1 a
\* non-empty queue is eventually followed by a state in which the queue is
\* empty and every unit has been admitted and executed to its end, also
\* when earlier units fail, and evaluate called with repeat >= 1 eventually
\* returns its report.
C35_NoStarvation ==
  /\ (/\ opts.maxConcurrency # Null /\ opts.maxConcurrency[1] >= 1
      /\ queue # <<>>)
       ~> (/\ queue = <<>>
           /\ \A u \in Units : unit[u].phase = "done" /\ IsSettled(results[u]))
  /\ (/\ opts.maxConcurrency # Null /\ opts.maxConcurrency[1] >= 1
      /\ pc = "init" /\ ~RepeatInvalid(opts.repeat))
       ~> (pc = "returned" /\ report # Null)

\* evaluate has returned with maxConcurrency 1 after two units ran one
\* after the other, the first of which failed
C35_Witness ==
  /\ pc = "returned"
  /\ opts.maxConcurrency = Some(1)
  /\ Len(tasksToRun) = 2
  /\ IsFailure(results[1])
  /\ \A u \in Units : unit[u].phase = "done"
  /\ IsReportCase(results[2])

\* C36 (stated as in the specification; the program violates it): in a
\* report produced by evaluate on a dataset that satisfies the case-name
\* uniqueness invariant, named and unnamed cases mixed or not, the names
\* of all entries of report.cases and report.failures together are pairwise
\* distinct, for every repeat >= 1.
C36_UnitNamesDistinct ==
  (pc = "returned" /\ FirstDuplicate(cases, 1, {}) = Null) =>
    LET entries == Rep.cases \o Rep.failures
    IN /\ Len(entries) = Len(tasksToRun)
       /\ \A i, j \in 1..Len(entries) : i # j => entries[i].name # entries[j].name

\* the sum of the amounts given for name by the first j of the increments
TotalAfter(increments, name, j) ==
  Reduce([i \in 1..j |-> IF increments[i].name = name THEN increments[i].amount ELSE 0], 1)

\* C37: within one task-run scope, after any sequence of incrementEvalMetric
\* calls, a metric that is recorded holds the sum of all amounts given for
\* its name, and a name is absent from the metrics exactly as long as every
\* running total so far has been 0; once recorded it stays recorded, even
\* when its total returns to 0.
C37_MetricIsSumOfAmounts ==
  /\ [](call.op = "incrementEvalMetric" =>
          \A name \in {"tokens", "cost"} :
            LET n == Len(call.increments)
            IN /\ name \notin DOMAIN call.taskRun.metrics
                    <=> \A j \in 0..n : TotalAfter(call.increments, name, j) = 0
               /\ name \in DOMAIN call.taskRun.metrics =>
                    call.taskRun.metrics[name] = TotalAfter(call.increments, name, n))
  /\ [][call.op = "incrementEvalMetric" =>
          DOMAIN call.taskRun.metrics \subseteq DOMAIN call'.taskRun.metrics]_vars

\* tokens was incremented by 0 (nothing recorded), then by 1 and by -1: it
\* is recorded with the value 0, while cost, incremented by 0 only, is absent
C37_Witness ==
  /\ call.op = "incrementEvalMetric"
  /\ Len(call.increments) = 4
  /\ call.increments[1] = [name |-> "tokens", amount |-> 0]
  /\ call.increments[2] = [name |-> "tokens", amount |-> 1]
  /\ call.increments[3] = [name |-> "cost", amount |-> 0]
  /\ call.increments[4] = [name |-> "tokens", amount |-> -1]
  /\ DOMAIN call.taskRun.metrics = {"tokens"}
  /\ call.taskRun.metrics["tokens"] = 0

\* C38: averageFromAggregates preserves the normalization of label
\* distributions: when the frequencies of a label name sum to 1 in every
\* input aggregate that reports the name, the output frequencies of that
\* name sum to 1, and each output frequency times the number of reporting
\* aggregates is the sum of that label value's frequencies over them.
C38_LabelsStayNormalized ==
  (call.op = "averageFromAggregates" /\ call.result # Pending) =>
    LET aggs == call.aggregates
        avg == call.result.labels
    IN \A k \in DOMAIN avg :
         LET reporting == Reporting(aggs, "labels", k)
         IN (\A g \in reporting :
               SumOf(LAMBDA v : aggs[g].labels[k][v], DOMAIN aggs[g].labels[k]) = Rat(1, 1))
              => /\ reporting # {}
                 /\ SumOf(LAMBDA v : avg[k][v], DOMAIN avg[k]) = Rat(1, 1)
                 /\ \A v \in DOMAIN avg[k] :
                      Scaled(Cardinality(reporting), avg[k][v])
                        = SumOf(LAMBDA g : Mass(aggs, g, k, v), reporting)

\* averageFromAggregates returned for two aggregates of which only one
\* reports the label l, with the frequencies x 1/2 and y 1/2, which are the
\* output frequencies too
C38_Witness ==
  /\ call.op = "averageFromAggregates"
  /\ call.result # Pending
  /\ Len(call.aggregates) = 2
  /\ Cardinality(Reporting(call.aggregates, "labels", "l")) = 1
  /\ call.result.labels["l"] = Put(Put(EmptyMap, "x", Rat(1, 2)), "y", Rat(1, 2))

\* C39: with maxConcurrency unset, and in the same way with maxConcurrency
\* 0, the limiter imposes no bound: evaluate is not rejected for it, and
\* as long as units are queued the next of them can start at once, however
\* many units are mid-execution, so that none waits for another to finish.
C39_UnsetOrZeroIsUnbounded ==
  (opts.maxConcurrency \in {Null, Some(0)} /\ ~RepeatInvalid(opts.repeat)) =>
    /\ pc # "rejected"
    /\ error = Null
    /\ (pc = "running" /\ queue # <<>>) => ENABLED StartUnit(NextQueued(queue))

\* with maxConcurrency 0 four units are mid-execution at the same time
C39_Witness ==
  /\ opts.maxConcurrency = Some(0)
  /\ pc = "running"
  /\ Len(tasksToRun) = 4
  /\ Cardinality(MidExecution) = 4

====
